---------------------------- MODULE Spec2Model ----------------------------
(***************************************************************************)
(* A model of src/bot.js (the revision that starts at line 584): the       *)
(* Singapore bus bot's data-access client, stop cache, proximity search,   *)
(* arrival formatting and per-user state.                                   *)
(*                                                                         *)
(* Conventions                                                             *)
(*  - A JavaScript number that may be NaN is a record [nan, v].            *)
(*  - Coordinates are offsets on the local tangent plane, in decimetres    *)
(*    north (Latitude) and east (Longitude) of a reference point; a        *)
(*    distance is a whole number of decimetres, so that Math.round to the   *)
(*    whole metre is a real conversion.                                     *)
(*  - Time is counted in half minutes, so that the rounding of a           *)
(*    difference to whole minutes is a real conversion.                     *)
(***************************************************************************)
EXTENDS Integers, Sequences, FiniteSets, TLC

VARIABLES
    nearbyCall,            \* a call of findNearbyBusStops
    etaCall,               \* a call of formatArrivalTime
    arrivalsCall,          \* the formatting of one stop's section
    geoCall,               \* a call of geocodeAddress
    combinedCall,          \* a call of formatCombinedBusArrivalsMessage
    testCall,              \* a run of testAPIConnection against a given upstream
    searchCall,            \* a run of handleLocationSearch, statement by statement
    WORKING_API_ENDPOINT,  \* the pinned base URL, or null
    workingAuthMethod,     \* the auth method logged by the discovery that pinned it
    discovery,             \* the runs of testAPIConnection: initializeBot's and /test's
    request,               \* a call of makeAPIRequest
    busStopsCache,         \* the stop cache: data and lastUpdated
    fetches,               \* the executions of getAllBusStops
    clock,                 \* the readings of Date.now() so far
    userPreferences,       \* chatId -> preferences entry
    userSessions,          \* chatId -> session entry
    handlers,              \* chatId -> the query handler of that chat in flight
    lastLocatedQuery,      \* chatId -> the coordinates of its latest located query
    addressPrompts         \* chatId -> the session its Search Address handler read

pureVars == <<nearbyCall, etaCall, arrivalsCall, geoCall, combinedCall, testCall,
              searchCall>>

clientVars == <<WORKING_API_ENDPOINT, workingAuthMethod, discovery, request>>

refreshVars == <<busStopsCache, fetches, clock>>

botVars == <<userPreferences, userSessions, handlers, lastLocatedQuery, addressPrompts>>

vars == <<nearbyCall, etaCall, arrivalsCall, geoCall, combinedCall, testCall, searchCall,
          WORKING_API_ENDPOINT, workingAuthMethod, discovery, request,
          busStopsCache, fetches, clock,
          userPreferences, userSessions, handlers, lastLocatedQuery, addressPrompts>>

-----------------------------------------------------------------------------
(* JavaScript values *)

Num(n) == [nan |-> FALSE, v |-> n]

NaN == [nan |-> TRUE, v |-> 0]

\* a <= b on JavaScript numbers: false as soon as one side is NaN
JsLeq(a, b) == ~a.nan /\ ~b.nan /\ a.v <= b.v

Range(s) == {s[i] : i \in 1..Len(s)}

\* A string is a sequence of one-character strings.
Digits == {"0", "1", "2", "3", "4", "5", "6", "7", "8", "9"}

DigitValue(c) ==
    CASE c = "0" -> 0 [] c = "1" -> 1 [] c = "2" -> 2 [] c = "3" -> 3
      [] c = "4" -> 4 [] c = "5" -> 5 [] c = "6" -> 6 [] c = "7" -> 7
      [] c = "8" -> 8 [] c = "9" -> 9

RECURSIVE LeadingDigits(_)
\* the longest prefix of str made of digits
LeadingDigits(str) ==
    IF str = <<>> \/ str[1] \notin Digits THEN <<>>
    ELSE <<str[1]>> \o LeadingDigits(Tail(str))

RECURSIVE DecimalValue(_)
DecimalValue(ds) ==
    IF ds = <<>> THEN 0
    ELSE 10 * DecimalValue(SubSeq(ds, 1, Len(ds) - 1)) + DigitValue(ds[Len(ds)])

RECURSIVE TrimStart(_)
TrimStart(str) ==
    IF str # <<>> /\ str[1] = " " THEN TrimStart(Tail(str)) ELSE str

\* A variant of parseInt that reads an unsigned number only.
parseIntUnsigned(str) ==
    LET ds == LeadingDigits(TrimStart(str))
    IN  IF ds = <<>> THEN NaN ELSE Num(DecimalValue(ds))

\* parseInt(str), radix 10: leading blanks, an optional sign, then the
\* longest run of digits; NaN when there is no digit
parseInt(str) ==
    LET t == TrimStart(str)
        signed == t # <<>> /\ t[1] \in {"-", "+"}
        ds == LeadingDigits(IF signed THEN Tail(t) ELSE t)
    IN  IF ds = <<>> THEN NaN
        ELSE IF signed /\ t[1] = "-" THEN Num(0 - DecimalValue(ds))
        ELSE Num(DecimalValue(ds))

Min(a, b) == IF a <= b THEN a ELSE b

\* Array.prototype.slice(0, n) for an integer n >= 0
Take(s, n) == SubSeq(s, 1, Min(n, Len(s)))

RECURSIVE InjSeqs(_, _)
\* the sequences without repetition over S, of length at most n
InjSeqs(S, n) ==
    IF n = 0 THEN {<<>>}
    ELSE LET shorter == InjSeqs(S, n - 1)
         IN  shorter \cup
             UNION {{Append(s, x) : x \in S \ Range(s)} :
                        s \in {t \in shorter : Len(t) = n - 1}}

-----------------------------------------------------------------------------
(* GeoMath and the proximity search: calculateDistance, findNearbyBusStops *)

SEARCH_RADIUS == 200

MAX_BUS_STOPS == 5

RECURSIVE ISqrtBetween(_, _, _)
\* the largest r in lo..hi with r*r <= n
ISqrtBetween(n, lo, hi) ==
    IF lo >= hi THEN lo
    ELSE LET mid == (lo + hi + 1) \div 2
         IN  IF mid * mid <= n THEN ISqrtBetween(n, mid, hi)
                               ELSE ISqrtBetween(n, lo, mid - 1)

\* 46340 is the largest integer whose square fits the 32-bit arithmetic
ISqrt(n) == ISqrtBetween(n, 0, IF n < 46340 THEN n ELSE 46340)

\* The haversine distance, in its local planar form: decimetres between two
\* points given in decimetres north and east of the reference point.
calculateDistance(lat1, lon1, lat2, lon2) ==
    ISqrt((lat2 - lat1) * (lat2 - lat1) + (lon2 - lon1) * (lon2 - lon1))

\* Math.round of a non-negative distance in decimetres, to whole metres
\* (halves round up)
RoundToMetres(d) == (d + 5) \div 10

\* A variant of the radius test that compares the rounded distance.
WithinRadiusRounded(distance, radiusMeters) ==
    /\ ~radiusMeters.nan
    /\ JsLeq(Num(RoundToMetres(distance)), radiusMeters)

\* line 892: distance <= radiusMeters, on the unrounded distance
WithinRadius(distance, radiusMeters) ==
    /\ ~radiusMeters.nan
    /\ JsLeq(Num(distance), Num(radiusMeters.v * 10))

RECURSIVE InsertByKeyBeforeEqual(_, _)
\* x goes before the elements whose key equals its own
InsertByKeyBeforeEqual(sortedSeq, x) ==
    IF sortedSeq = <<>> THEN <<x>>
    ELSE IF sortedSeq[Len(sortedSeq)].key < x.key
         THEN Append(sortedSeq, x)
         ELSE Append(InsertByKeyBeforeEqual(SubSeq(sortedSeq, 1, Len(sortedSeq) - 1), x),
                     sortedSeq[Len(sortedSeq)])

RECURSIVE InsertByKey(_, _)
\* x goes after every element whose key is <= its own: a stable insertion
InsertByKey(sortedSeq, x) ==
    IF sortedSeq = <<>> THEN <<x>>
    ELSE IF sortedSeq[Len(sortedSeq)].key <= x.key
         THEN Append(sortedSeq, x)
         ELSE Append(InsertByKey(SubSeq(sortedSeq, 1, Len(sortedSeq) - 1), x),
                     sortedSeq[Len(sortedSeq)])

RECURSIVE SortKeyed(_)
SortKeyed(s) ==
    IF s = <<>> THEN <<>>
    ELSE InsertByKey(SortKeyed(SubSeq(s, 1, Len(s) - 1)), s[Len(s)])

\* A variant of the sort with the comparator reversed (b - a).
SortDescending(items, keys) ==
    LET sorted == SortKeyed([i \in 1..Len(items) |->
                                [key |-> 0 - keys[i], item |-> items[i]]])
    IN  [i \in 1..Len(sorted) |-> sorted[i].item]

\* Array.prototype.sort((a, b) => key(a) - key(b)): ascending and stable;
\* keys[i] is the key of items[i]
SortAscending(items, keys) ==
    LET sorted == SortKeyed([i \in 1..Len(items) |->
                                [key |-> keys[i], item |-> items[i]]])
    IN  [i \in 1..Len(sorted) |-> sorted[i].item]

RECURSIVE nearbyPush(_, _, _, _)
\* lines 888-898: the stops within the radius, in cache order, each with its
\* distance rounded to the whole metre ({...stop, distance})
nearbyPush(userLat, userLng, busStops, radiusMeters) ==
    IF busStops = <<>> THEN <<>>
    ELSE LET stop == busStops[Len(busStops)]
             rest == nearbyPush(userLat, userLng,
                                SubSeq(busStops, 1, Len(busStops) - 1), radiusMeters)
             distance == calculateDistance(userLat, userLng,
                                           stop.Latitude, stop.Longitude)
         IN  IF WithinRadius(distance, radiusMeters)
             THEN Append(rest, [BusStopCode |-> stop.BusStopCode,
                                Latitude |-> stop.Latitude,
                                Longitude |-> stop.Longitude,
                                distance |-> RoundToMetres(distance)])
             ELSE rest

\* lines 885-904
findNearbyBusStops(userLat, userLng, busStops, radiusMeters) ==
    LET nearby == nearbyPush(userLat, userLng, busStops, radiusMeters)
    IN  Take(SortAscending(nearby, [i \in 1..Len(nearby) |-> nearby[i].distance]),
             MAX_BUS_STOPS)

-----------------------------------------------------------------------------
(* The inputs of the proximity search *)

MaxCacheLen == 6

Stop(code, lat, lng) == [BusStopCode |-> code, Latitude |-> lat, Longitude |-> lng]

\* Stops named by their distance from the reference point (0, 0):
\* 30 m, 50 m, 120 m, 120.4 m, 199.6 m, 200.4 m and 480 m.
StopPool ==
    { Stop("S030", 0, 300), Stop("S050", 500, 0), Stop("S120", 0, 1200),
      Stop("S1204", 1204, 0), Stop("S1996", 0, 1996), Stop("S2004", 2004, 0),
      Stop("S480", 4800, 0) }

\* the reference point, a point 100 m east of it, and a point 34 m from
\* both the stop at 30 m and the stop at 50 m
Origins == { <<0, 0>>, <<0, 1000>>, <<160, 0>> }

RadiusInputs == { Num(100), Num(SEARCH_RADIUS), Num(500), NaN }

nearbyIdle == [state |-> "idle"]

etaIdle == [state |-> "idle"]

arrivalsIdle == [state |-> "idle"]

geoIdle == [state |-> "idle"]

combinedIdle == [state |-> "idle"]

testIdle == [state |-> "idle"]

searchIdle == [pc |-> "idle"]

null == "null"

discoveryIdle ==
    [pc |-> "idle", base |-> 1, testEndpoint |-> 1, auth |-> 1, returned |-> "nothing"]

requestIdle == [pc |-> "idle", url |-> null, attempt |-> 0, attempts |-> <<>>,
                sleeps |-> <<>>, result |-> [kind |-> "none", attempt |-> 0]]

\* the client at rest, for the specifications of the pure functions
ClientIdle ==
    /\ WORKING_API_ENDPOINT = null
    /\ workingAuthMethod = 0
    /\ discovery = [p \in {"initializeBot", "test"} |-> discoveryIdle]
    /\ request = requestIdle

\* getAllBusStops before it is called
fetchIdle == [pc |-> "idle", endpoint |-> 1, upstream |-> "none", allBusStops |-> <<>>,
              skip |-> 0, totalRequests |-> 0, answered |-> FALSE,
              result |-> "none", value |-> <<>>]

\* the cache as the module creates it, and nobody fetching
RefreshIdle ==
    /\ busStopsCache = [data |-> <<>>, lastUpdated |-> 0]
    /\ fetches = [p \in {"initializeBot", "handleLocationSearch"} |-> fetchIdle]
    /\ clock = 0

Users == {"u1"}

\* a second chat, which sends /search and resets its settings
Bystanders == {"u2"}

Chats == Users \cup Bystanders

\* a key held in one place for all chats, where each event has its own
chatIdShared(chat) == "u1"

\* const chatId = msg.chat.id, the key of both maps
chatId(chat) == chat

\* Map.get of a chat that has no entry
NoEntry == [present |-> FALSE]

handlerIdle == [pc |-> "idle"]

\* empty maps and no handler in flight
BotIdle ==
    /\ userPreferences = [u \in Chats |-> NoEntry]
    /\ userSessions = [u \in Chats |-> NoEntry]
    /\ handlers = [u \in Chats |-> handlerIdle]
    /\ lastLocatedQuery = [u \in Chats |-> NoEntry]
    /\ addressPrompts = [u \in Chats |-> NoEntry]

InitNearby ==
    /\ nearbyCall \in
          [state : {"called"}, origin : Origins,
           busStops : InjSeqs(StopPool, MaxCacheLen) \ {<<>>},
           radiusMeters : RadiusInputs, sorted : {<<>>}]
    /\ etaCall = etaIdle
    /\ arrivalsCall = arrivalsIdle
    /\ geoCall = geoIdle
    /\ combinedCall = combinedIdle
    /\ ClientIdle
    /\ RefreshIdle
    /\ BotIdle
    /\ testCall = testIdle
    /\ searchCall = searchIdle

\* the call of findNearbyBusStops on the chosen inputs
CallFindNearby ==
    /\ nearbyCall.state = "called"
    /\ nearbyCall' =
         [nearbyCall EXCEPT
            !.state = "returned",
            !.sorted = findNearbyBusStops(nearbyCall.origin[1], nearbyCall.origin[2],
                                          nearbyCall.busStops, nearbyCall.radiusMeters)]
    /\ UNCHANGED <<etaCall, arrivalsCall, geoCall, combinedCall, testCall, searchCall, clientVars, refreshVars, botVars>>

NextNearby == CallFindNearby

SpecNearby == InitNearby /\ [][NextNearby]_vars

Codes(stops) == [i \in 1..Len(stops) |-> stops[i].BusStopCode]

Unranked(r) == Stop(r.BusStopCode, r.Latitude, r.Longitude)

\* C1: findNearbyBusStops returns only stops whose computed distance from the
\* origin is within the requested radius (the unrounded distance and the
\* reported whole-metre distance alike), the returned list is in
\* non-decreasing order of the reported distance, and from the reference
\* point the stops at 50 m, 120 m and 480 m with radius 200 m give exactly
\* [50 m, 120 m].
C1_NearbyWithinRadiusSorted ==
    nearbyCall.state = "returned" =>
        LET r == nearbyCall.sorted
            o == nearbyCall.origin
            radius == nearbyCall.radiusMeters
        IN  /\ \A i \in 1..Len(r) :
                  /\ ~radius.nan
                  /\ Unranked(r[i]) \in Range(nearbyCall.busStops)
                  /\ calculateDistance(o[1], o[2], r[i].Latitude, r[i].Longitude)
                        <= radius.v * 10
                  /\ r[i].distance <= radius.v
            /\ \A i, j \in 1..Len(r) : i < j => r[i].distance <= r[j].distance
            /\ ( /\ o = <<0, 0>>
                 /\ radius = Num(SEARCH_RADIUS)
                 /\ Range(Codes(nearbyCall.busStops)) = {"S050", "S120", "S480"}
                 /\ Len(nearbyCall.busStops) = 3 )
               => Codes(r) = <<"S050", "S120">>

\* the search has run on the stops at 480 m, 120 m and 50 m, cached in that
\* order, with radius 200 m
C1_Witness ==
    /\ nearbyCall.state = "returned"
    /\ nearbyCall.origin = <<0, 0>>
    /\ nearbyCall.radiusMeters = Num(SEARCH_RADIUS)
    /\ Codes(nearbyCall.busStops) = <<"S480", "S120", "S050">>
    /\ Codes(nearbyCall.sorted) = <<"S050", "S120">>

-----------------------------------------------------------------------------
(* ArrivalService: formatArrivalTime, formatLoad and the per-stop section  *)
(* of formatCombinedBusArrivalsMessage                                      *)

\* The values of an EstimatedArrival field: missing, '', a string that is
\* no date, or a timestamp (in half minutes).
Undefined == [kind |-> "undefined", t |-> 0]

Blank == [kind |-> "blank", t |-> 0]

Garbage == [kind |-> "garbage", t |-> 0]

At(t) == [kind |-> "time", t |-> t]

\* the texts formatArrivalTime returns
NoData == [text |-> "No data", n |-> 0]

Arriving == [text |-> "Arriving", n |-> 0]

OneMin == [text |-> "1 min", n |-> 1]

Mins(d) == [text |-> "mins", n |-> d]

\* !arrivalTime || arrivalTime === ''
Falsy(arrivalTime) == arrivalTime.kind \in {"undefined", "blank"}

\* Math.round((arrival - now) / (1000 * 60)) for a difference given in half
\* minutes: halves round up
RoundToMinutes(halfMinutes) == (halfMinutes + 1) \div 2

\* A variant that reports 60 minutes as no data (>= instead of >).
formatArrivalTimeFrom60(arrivalTime, now) ==
    IF Falsy(arrivalTime) THEN NoData
    ELSE IF arrivalTime.kind # "time" THEN NoData
    ELSE LET diffMinutes == RoundToMinutes(arrivalTime.t - now)
         IN  IF diffMinutes <= 0 THEN Arriving
             ELSE IF diffMinutes = 1 THEN OneMin
             ELSE IF diffMinutes >= 60 THEN NoData
             ELSE Mins(diffMinutes)

\* lines 662-677; now is the value of new Date()
formatArrivalTime(arrivalTime, now) ==
    IF Falsy(arrivalTime) THEN NoData
    ELSE IF arrivalTime.kind # "time" THEN NoData
    ELSE LET diffMinutes == RoundToMinutes(arrivalTime.t - now)
         IN  IF diffMinutes <= 0 THEN Arriving
             ELSE IF diffMinutes = 1 THEN OneMin
             ELSE IF diffMinutes > 60 THEN NoData
             ELSE Mins(diffMinutes)

\* lines 679-686
formatLoad(load) ==
    CASE load = "SEA" -> "green"
      [] load = "SDA" -> "yellow"
      [] load = "LSD" -> "red"
      [] OTHER -> "white"

MaxArrival == 130

NowInputs == {4, 7}

EtaInputs == {Undefined, Blank, Garbage} \cup {At(t) : t \in 0..MaxArrival}

InitEta ==
    /\ etaCall \in [state : {"called"}, arrivalTime : EtaInputs,
                    now : NowInputs, text : {NoData}]
    /\ nearbyCall = nearbyIdle
    /\ arrivalsCall = arrivalsIdle
    /\ geoCall = geoIdle
    /\ combinedCall = combinedIdle
    /\ ClientIdle
    /\ RefreshIdle
    /\ BotIdle
    /\ testCall = testIdle
    /\ searchCall = searchIdle

\* the call of formatArrivalTime on the chosen inputs
CallFormatArrivalTime ==
    /\ etaCall.state = "called"
    /\ etaCall' = [etaCall EXCEPT
                     !.state = "returned",
                     !.text = formatArrivalTime(etaCall.arrivalTime, etaCall.now)]
    /\ UNCHANGED <<nearbyCall, arrivalsCall, geoCall, combinedCall, testCall, searchCall, clientVars, refreshVars, botVars>>

NextEta == CallFormatArrivalTime

SpecEta == InitEta /\ [][NextEta]_vars

\* the whole number of minutes nearest to a difference of h half minutes,
\* halves going up: the d with 2d - 1 <= h <= 2d
NearestMinute(h) ==
    CHOOSE d \in ((h \div 2) - 1)..((h \div 2) + 1) : 2 * d - 1 <= h /\ h <= 2 * d

\* C9: for an arrival whose rounded difference from now is d minutes,
\* formatArrivalTime returns 'Arriving' when d <= 0, '1 min' when d = 1,
\* 'd mins' when 2 <= d <= 60 and 'No data' when d > 60 or when the timestamp
\* is absent, blank or unparsable.
C9_FormatArrivalTime ==
    etaCall.state = "returned" =>
        LET a == etaCall.arrivalTime
            d == NearestMinute(a.t - etaCall.now)
        IN  etaCall.text =
              ( IF a.kind # "time" THEN NoData
                ELSE IF d <= 0 THEN Arriving
                ELSE IF d = 1 THEN OneMin
                ELSE IF d <= 60 THEN Mins(d)
                ELSE NoData )

\* an arrival 15 minutes away has been formatted as '15 mins'
C9_Witness ==
    /\ etaCall.state = "returned"
    /\ etaCall.arrivalTime.kind = "time"
    /\ etaCall.arrivalTime.t - etaCall.now = 30
    /\ etaCall.text = Mins(15)

-----------------------------------------------------------------------------
(* The section of one stop in formatCombinedBusArrivalsMessage             *)

NoBus == [present |-> FALSE, EstimatedArrival |-> Undefined, Load |-> ""]

Bus(eta, load) == [present |-> TRUE, EstimatedArrival |-> eta, Load |-> load]

Service(no, nextBus, nextBus2) ==
    [ServiceNo |-> no, NextBus |-> nextBus, NextBus2 |-> nextBus2]

\* service.NextBus?.EstimatedArrival
EstimatedArrivalOf(bus) == IF bus.present THEN bus.EstimatedArrival ELSE Undefined

\* service.NextBus?.Load
LoadOf(bus) == IF bus.present THEN bus.Load ELSE ""

\* line 946: service.NextBus && service.NextBus.EstimatedArrival
HasEstimatedArrival(service) ==
    service.NextBus.present /\ ~Falsy(service.NextBus.EstimatedArrival)

ServiceCap == 8

UnknownServiceKey == 999

\* lines 948-949: parseInt(ServiceNo) || 999
ServiceKey(service) ==
    LET n == parseInt(service.ServiceNo)
    IN  IF n.nan \/ n.v = 0 THEN UnknownServiceKey ELSE n.v

\* A variant that caps the list before the services without an estimated
\* arrival are dropped.
sortedServicesCapFirst(Services) ==
    LET capped == Take(Services, ServiceCap)
        withEta == SelectSeq(capped, HasEstimatedArrival)
    IN  SortAscending(withEta, [i \in 1..Len(withEta) |-> ServiceKey(withEta[i])])

\* lines 945-951: filter, then sort by the service number
sortedServices(Services) ==
    LET withEta == SelectSeq(Services, HasEstimatedArrival)
    IN  SortAscending(withEta, [i \in 1..Len(withEta) |-> ServiceKey(withEta[i])])

\* lines 957-970: the line of one service, or none when its next bus is
\* formatted as 'No data'
busLines(service, now) ==
    LET nextBus == formatArrivalTime(EstimatedArrivalOf(service.NextBus), now)
        nextBus2 == formatArrivalTime(EstimatedArrivalOf(service.NextBus2), now)
        load1 == formatLoad(LoadOf(service.NextBus))
        load2 == formatLoad(LoadOf(service.NextBus2))
    IN  IF nextBus # NoData
        THEN << [busNumber |-> service.ServiceNo, load1 |-> load1,
                 nextBus |-> nextBus, nextBus2 |-> nextBus2,
                 load2 |-> IF nextBus2 # NoData THEN load2 ELSE "none"] >>
        ELSE <<>>

RECURSIVE forEachBusLine(_, _)
forEachBusLine(services, now) ==
    IF services = <<>> THEN <<>>
    ELSE busLines(Head(services), now) \o forEachBusLine(Tail(services), now)

\* lines 942-973: arrivalsData is null, or carries Services (absent
\* Services are the empty sequence)
stopSection(arrivalsData, now) ==
    IF arrivalsData.isNull \/ arrivalsData.Services = <<>>
    THEN [marker |-> "No buses currently serving this stop", lines |-> <<>>]
    ELSE LET sorted == sortedServices(arrivalsData.Services)
         IN  IF sorted = <<>>
             THEN [marker |-> "No real-time data available", lines |-> <<>>]
             ELSE [marker |-> "arrivals",
                   lines |-> forEachBusLine(Take(sorted, ServiceCap), now)]

MaxServices == 10

\* The services of one stop as the upstream may list them; the clock of the
\* section is 4, so At(4 + 2 * m) is m minutes away.
ServicePool ==
    << Service(<<"1", "2">>, Bus(At(94), "SEA"), Bus(At(124), "SDA")),
       Service(<<"5">>, Bus(At(10), "SDA"), Bus(Blank, "")),
       Service(<<"A", "1">>, Bus(Garbage, "LSD"), NoBus),
       Service(<<"7", "A">>, Bus(At(14), "LSD"), Bus(At(40), "XXX")),
       Service(<<"6", "1">>, Bus(At(126), "SEA"), NoBus),
       Service(<<"N", "R", "1">>, Bus(At(24), "SEA"), Bus(Garbage, "SEA")),
       Service(<<"2", "1">>, NoBus, NoBus),
       Service(<<"3", "0">>, Bus(Blank, "SEA"), Bus(At(30), "SEA")),
       Service(<<"2">>, Bus(At(5), "SEA"), NoBus),
       Service(<<"8", "5", "1">>, Bus(At(0), "SDA"), Bus(At(8), "SEA")),
       Service(<<"0">>, Bus(At(34), "SEA"), NoBus),
       Service(<<"1", "4">>, Bus(At(20), "SEA"), NoBus),
       Service(<<"1", "5">>, Bus(At(22), "SEA"), NoBus),
       Service(<<"1", "6">>, Bus(At(26), "SEA"), NoBus) >>

RECURSIVE Pick(_, _)
\* the elements of s whose index is in idx, in the order of s
Pick(s, idx) ==
    IF s = <<>> THEN <<>>
    ELSE LET front == Pick(SubSeq(s, 1, Len(s) - 1), idx)
         IN  IF Len(s) \in idx THEN Append(front, s[Len(s)]) ELSE front

Reverse(s) == [i \in 1..Len(s) |-> s[Len(s) + 1 - i]]

ServiceLists ==
    LET picks == {Pick(ServicePool, idx) :
                     idx \in {x \in SUBSET (1..Len(ServicePool)) :
                                  Cardinality(x) <= MaxServices}}
    IN  picks \cup {Reverse(l) : l \in picks}

InitArrivals ==
    /\ arrivalsCall \in
          [state : {"called"},
           arrivalsData : [isNull : {FALSE}, Services : ServiceLists]
                             \cup {[isNull |-> TRUE, Services |-> <<>>]},
           now : {4},
           section : {[marker |-> "", lines |-> <<>>]}]
    /\ nearbyCall = nearbyIdle
    /\ etaCall = etaIdle
    /\ geoCall = geoIdle
    /\ combinedCall = combinedIdle
    /\ ClientIdle
    /\ RefreshIdle
    /\ BotIdle
    /\ testCall = testIdle
    /\ searchCall = searchIdle

\* the section of one stop is formatted from the chosen arrivals data
FormatStopSection ==
    /\ arrivalsCall.state = "called"
    /\ arrivalsCall' =
         [arrivalsCall EXCEPT
            !.state = "returned",
            !.section = stopSection(arrivalsCall.arrivalsData, arrivalsCall.now)]
    /\ UNCHANGED <<nearbyCall, etaCall, geoCall, combinedCall, testCall, searchCall, clientVars, refreshVars, botVars>>

NextArrivals == FormatStopSection

SpecArrivals == InitArrivals /\ [][NextArrivals]_vars

\* the predictions the section was formatted from
Predictions == arrivalsCall.arrivalsData.Services

ServiceNos(services) == [i \in 1..Len(services) |-> services[i].ServiceNo]

\* a primary ETA that is present, parsable and not more than 60 minutes away
DisplayableEta(service, now) ==
    /\ service.NextBus.present
    /\ service.NextBus.EstimatedArrival.kind = "time"
    /\ NearestMinute(service.NextBus.EstimatedArrival.t - now) <= 60

\* the number that leads a service identifier, as parseInt(ServiceNo) || 999
\* reads it: 999 when there is none or when it is 0
LeadingNumberOr999(no) ==
    LET ds == LeadingDigits(no)
    IN  IF ds = <<>> \/ DecimalValue(ds) = 0 THEN 999 ELSE DecimalValue(ds)

\* the lines are in ascending order of the service number
LinesAscending(lines) ==
    \A k \in 1..(Len(lines) - 1) :
        LeadingNumberOr999(lines[k].busNumber)
            <= LeadingNumberOr999(lines[k + 1].busNumber)

Precedes(keys, i, j) == keys[i] < keys[j] \/ (keys[i] = keys[j] /\ i < j)

API_ENDPOINTS == <<"primary", "secondary", "alternative1", "alternative2">>

testEndpoints == <<"BusStops", "BusServices", "BusRoutes">>

\* the header that carries the key in each of testAPIConnection's methods
authMethods == <<"AccountKey", "Authorization", "X-API-Key">>

\* the header formats of makeAPIRequest: the key header, and whether a
\* Content-Type header goes with it
authHeaders ==
    << [key |-> "AccountKey",    contentType |-> FALSE],
       [key |-> "Authorization", contentType |-> FALSE],
       [key |-> "X-API-Key",     contentType |-> FALSE],
       [key |-> "AccountKey",    contentType |-> TRUE] >>

\* what a probe can come back with: a rejection or a timeout, or a 2xx
\* whose body is {}, [], {value: []}, {value: [x]} or [x]
ProbeOutcomes ==
    {"error", "emptyObject", "emptyArray", "emptyValue", "value", "array"}

\* response.data && (response.data.value || response.data.length > 0):
\* an array, even an empty one, is truthy
ProbeAccepted(outcome) == outcome \in {"emptyValue", "value", "array"}

\* the default of the parameter retries
retries == 3

\* headerIndex, counted from 0 as the code does
HeaderIndex(attempt) == (attempt - 1) % Len(authHeaders)

BackoffLinear(attempt) == attempt * 1000

\* Math.pow(2, attempt) * 1000, in milliseconds
Backoff(attempt) == (2 ^ attempt) * 1000

ShouldRetryOnceMore(attempt) == attempt <= retries + 1

\* attempt <= retries, the test of the catch block
ShouldRetry(attempt) == attempt <= retries

AttemptUrlRepinned(call) == WORKING_API_ENDPOINT

\* the url of an attempt: the constant computed when the call began
AttemptUrl(call) == call.url

NoEndpointError == [kind |-> "noEndpoint", attempt |-> 0]

NoWorkingEndpointUnchecked(endpoint) == FALSE

\* !WORKING_API_ENDPOINT, the test that opens makeAPIRequest
NoWorkingEndpoint(endpoint) == endpoint = null

ErrorOf(attempt) == [kind |-> "error", attempt |-> attempt]

PayloadOf(attempt) == [kind |-> "payload", attempt |-> attempt]

UndefinedResult == [kind |-> "undefined", attempt |-> 0]

\* the HTTP request of an attempt, as it goes out
Sent(call, attempt) ==
    [url |-> AttemptUrl(call), header |-> HeaderIndex(attempt) + 1,
     outcome |-> "pending"]

Settle(attempts, outcome) ==
    [attempts EXCEPT ![Len(attempts)].outcome = outcome]

\* module load: initializeBot() is called and its first probe goes out
\* before any handler can run
InitClient ==
    /\ nearbyCall = nearbyIdle
    /\ etaCall = etaIdle
    /\ arrivalsCall = arrivalsIdle
    /\ geoCall = geoIdle
    /\ combinedCall = combinedIdle
    /\ WORKING_API_ENDPOINT = null
    /\ workingAuthMethod = 0
    /\ discovery = [p \in {"initializeBot", "test"} |->
                      IF p = "initializeBot"
                      THEN [discoveryIdle EXCEPT !.pc = "probing"]
                      ELSE discoveryIdle]
    /\ request = requestIdle
    /\ RefreshIdle
    /\ BotIdle
    /\ testCall = testIdle
    /\ searchCall = searchIdle

\* the /test command: the handler starts a run of testAPIConnection
TestCommand ==
    /\ discovery["test"].pc = "idle"
    /\ discovery' = [discovery EXCEPT !["test"] = [discoveryIdle EXCEPT !.pc = "probing"]]
    /\ UNCHANGED <<WORKING_API_ENDPOINT, workingAuthMethod, request, pureVars, refreshVars, botVars>>

LastProbe(d) ==
    /\ d.base = Len(API_ENDPOINTS)
    /\ d.testEndpoint = Len(testEndpoints)
    /\ d.auth = Len(authMethods)

NextProbeFirstPathOnly(d) ==
    IF d.auth < Len(authMethods) THEN [d EXCEPT !.auth = d.auth + 1]
    ELSE [d EXCEPT !.auth = 1, !.testEndpoint = 1, !.base = d.base + 1]

\* the position of the three nested loops after a probe that was not accepted
NextProbe(d) ==
    IF d.auth < Len(authMethods) THEN [d EXCEPT !.auth = d.auth + 1]
    ELSE IF d.testEndpoint < Len(testEndpoints)
         THEN [d EXCEPT !.auth = 1, !.testEndpoint = d.testEndpoint + 1]
         ELSE [d EXCEPT !.auth = 1, !.testEndpoint = 1, !.base = d.base + 1]

\* where a caller of testAPIConnection is once it has the result
Finished(p) == IF p = "initializeBot" THEN "done" ELSE "idle"

\* a probe is answered and not accepted: the next one goes out
ProbeRejected(p) ==
    /\ discovery[p].pc = "probing"
    /\ ~LastProbe(discovery[p])
    /\ \E outcome \in ProbeOutcomes : ~ProbeAccepted(outcome)
    /\ discovery' = [discovery EXCEPT ![p] = NextProbe(discovery[p])]
    /\ UNCHANGED <<WORKING_API_ENDPOINT, workingAuthMethod, request, pureVars, refreshVars, botVars>>

\* a probe is accepted: testAPIConnection returns baseUrl, and
\* initializeBot or the /test handler assigns it
ProbeAcceptedBy(p) ==
    /\ discovery[p].pc = "probing"
    /\ \E outcome \in ProbeOutcomes : ProbeAccepted(outcome)
    /\ WORKING_API_ENDPOINT' = API_ENDPOINTS[discovery[p].base]
    /\ workingAuthMethod' = discovery[p].auth
    /\ discovery' = [discovery EXCEPT ![p] = [discoveryIdle EXCEPT !.pc = Finished(p),
                                                                  !.returned = "baseUrl"]]
    /\ UNCHANGED <<request, pureVars, refreshVars, botVars>>

\* the caller assigns whatever testAPIConnection returned
AfterNullResultAssigned(p, pinned) == null

\* WORKING_API_ENDPOINT once testAPIConnection has returned null to p:
\* initializeBot assigns the result (1638), the /test handler assigns only
\* a result that is truthy (1188-1189)
AfterNullResult(p, pinned) == IF p = "initializeBot" THEN null ELSE pinned

\* the last probe is not accepted: testAPIConnection returns null, which
\* initializeBot assigns and the /test handler does not
DiscoveryFailed(p) ==
    /\ discovery[p].pc = "probing"
    /\ LastProbe(discovery[p])
    /\ \E outcome \in ProbeOutcomes : ~ProbeAccepted(outcome)
    /\ WORKING_API_ENDPOINT' = AfterNullResult(p, WORKING_API_ENDPOINT)
    /\ workingAuthMethod' = IF p = "initializeBot" THEN 0 ELSE workingAuthMethod
    /\ discovery' = [discovery EXCEPT ![p] = [discoveryIdle EXCEPT !.pc = Finished(p),
                                                                  !.returned = "null"]]
    /\ UNCHANGED <<request, pureVars, refreshVars, botVars>>

\* a caller (getAllBusStops, getBusArrivals) calls makeAPIRequest: without
\* a pinned endpoint it throws, otherwise attempt 1 goes out
CallMakeAPIRequest ==
    /\ request.pc \in {"idle", "returned", "thrown"}
    /\ IF NoWorkingEndpoint(WORKING_API_ENDPOINT)
       THEN request' = [requestIdle EXCEPT !.pc = "thrown", !.result = NoEndpointError]
       ELSE LET call == [requestIdle EXCEPT !.url = WORKING_API_ENDPOINT]
            IN  request' = [call EXCEPT !.pc = "awaiting", !.attempt = 1,
                                        !.attempts = <<Sent(call, 1)>>]
    /\ UNCHANGED <<WORKING_API_ENDPOINT, workingAuthMethod, discovery, pureVars, refreshVars, botVars>>

\* axios.get resolves: the call returns response.data
AttemptSucceeds ==
    /\ request.pc = "awaiting"
    /\ request' = [request EXCEPT !.pc = "returned",
                                  !.attempts = Settle(request.attempts, "ok"),
                                  !.result = PayloadOf(request.attempt)]
    /\ UNCHANGED <<WORKING_API_ENDPOINT, workingAuthMethod, discovery, pureVars, refreshVars, botVars>>

\* axios.get rejects: the catch block sleeps, or throws the error
AttemptFails ==
    /\ request.pc = "awaiting"
    /\ IF ShouldRetry(request.attempt)
       THEN request' = [request EXCEPT !.pc = "sleeping",
                                       !.attempts = Settle(request.attempts, "error"),
                                       !.sleeps = Append(request.sleeps, Backoff(request.attempt))]
       ELSE request' = [request EXCEPT !.pc = "thrown",
                                       !.attempts = Settle(request.attempts, "error"),
                                       !.result = ErrorOf(request.attempt)]
    /\ UNCHANGED <<WORKING_API_ENDPOINT, workingAuthMethod, discovery, pureVars, refreshVars, botVars>>

\* the sleep is over: attempt++, and the loop goes round if
\* attempt <= retries + 1; a loop that ran out would return undefined
SleepOver ==
    /\ request.pc = "sleeping"
    /\ IF request.attempt + 1 <= retries + 1
       THEN request' = [request EXCEPT !.pc = "awaiting",
                                       !.attempt = request.attempt + 1,
                                       !.attempts = Append(request.attempts,
                                                           Sent(request, request.attempt + 1))]
       ELSE request' = [request EXCEPT !.pc = "returned", !.result = UndefinedResult]
    /\ UNCHANGED <<WORKING_API_ENDPOINT, workingAuthMethod, discovery, pureVars, refreshVars, botVars>>

RequestStep == CallMakeAPIRequest \/ AttemptSucceeds \/ AttemptFails \/ SleepOver

NextClient ==
    \/ TestCommand
    \/ \E p \in {"initializeBot", "test"} : ProbeRejected(p)
    \/ \E p \in {"initializeBot", "test"} : ProbeAcceptedBy(p)
    \/ \E p \in {"initializeBot", "test"} : DiscoveryFailed(p)
    \/ CallMakeAPIRequest
    \/ AttemptSucceeds
    \/ AttemptFails
    \/ SleepOver

SpecClient == InitClient /\ [][NextClient]_vars


startupOver == discovery["initializeBot"].pc = "done"

\* a step in which the /test handler assigns the endpoint its run found
Repinned ==
    /\ discovery["test"].pc = "probing"
    /\ discovery'["test"].pc = "idle"
    /\ WORKING_API_ENDPOINT' \in Range(API_ENDPOINTS)

AttemptsOf(call) == 1..Len(call.attempts)

\* C5: once the startup discovery has pinned a base URL, only /test probes
\* again and only a /test that found an endpoint changes the pinned URL;
\* every attempt of a makeAPIRequest call, retries included, goes to the
\* base URL that was pinned when the call began, and no step of a call,
\* failing or retrying, starts a discovery or changes the pinned URL.
C5_PinnedEndpointReused ==
    [][ /\ startupOver =>
             /\ discovery'["initializeBot"] = discovery["initializeBot"]
             /\ discovery' # discovery =>
                    \/ discovery["test"].pc = "idle" /\ request' = request
                    \/ discovery["test"].pc = "probing"
             /\ WORKING_API_ENDPOINT' # WORKING_API_ENDPOINT => Repinned
        /\ request' # request =>
             /\ WORKING_API_ENDPOINT' = WORKING_API_ENDPOINT
             /\ discovery' = discovery
        /\ request.pc \in {"idle", "returned", "thrown"} /\ request'.pc = "awaiting" =>
             request'.url = WORKING_API_ENDPOINT
        /\ request.pc \in {"awaiting", "sleeping"} => request'.url = request.url
        /\ \A k \in AttemptsOf(request') :
             /\ request'.attempts[k].url = request'.url
             /\ request'.attempts[k].url \in Range(API_ENDPOINTS) ]_vars

\* the startup discovery pinned an endpoint, no /test is running, and a
\* failed request is being retried at the pinned URL
C5_Witness ==
    /\ startupOver
    /\ discovery["test"].pc = "idle"
    /\ WORKING_API_ENDPOINT = "secondary"
    /\ request.pc = "awaiting"
    /\ request.attempt = 3
    /\ request.attempts[3].url = "secondary"

\* C6: every attempt of makeAPIRequest carries the key in the header that
\* the discovery which pinned the endpoint succeeded with.
C6_Original ==
    workingAuthMethod # 0 =>
        \A k \in AttemptsOf(request) :
            authHeaders[request.attempts[k].header].key = authMethods[workingAuthMethod]

AllFailed(call) == \A k \in AttemptsOf(call) : call.attempts[k].outcome = "error"

\* C7: a call that reaches the retry loop makes at most 1 + 3 attempts; the
\* sleep after the k-th failed attempt is 2^k seconds; a call whose attempts
\* all failed has made 4 attempts and slept 2, 4 and 8 seconds, nothing
\* after the fourth, and throws the error of the fourth attempt; a call in
\* progress can always take its next step.
C7_RetryBudgetAndBackoff ==
    /\ Len(request.attempts) <= 4
    /\ Len(request.sleeps) <= 3
    /\ \A k \in 1..Len(request.sleeps) :
         /\ request.sleeps[k] = <<2000, 4000, 8000>>[k]
         /\ request.attempts[k].outcome = "error"
    /\ request.pc = "awaiting" => Len(request.sleeps) = Len(request.attempts) - 1
    /\ request.pc = "sleeping" => Len(request.sleeps) = Len(request.attempts)
    /\ request.attempts # <<>> /\ AllFailed(request) =>
         \/ request.pc = "sleeping" /\ Len(request.attempts) < 4
         \/ /\ request.pc = "thrown"
            /\ Len(request.attempts) = 4
            /\ request.sleeps = <<2000, 4000, 8000>>
            /\ request.result = [kind |-> "error", attempt |-> 4]
    /\ request.pc \in {"awaiting", "sleeping"} => ENABLED RequestStep

\* all four attempts failed and the call has thrown
C7_Witness ==
    /\ request.pc = "thrown"
    /\ Len(request.attempts) = 4
    /\ AllFailed(request)

Ended(call) == call.pc \in {"returned", "thrown"}

\* C8: a call that reaches the retry loop ends by returning or by throwing,
\* never both and never neither: when it returns, the value is the payload
\* of its last attempt, that attempt is the only one that succeeded, and no
\* sleep followed it; when it throws, all 1 + retries attempts have failed;
\* until it ends nothing is returned or thrown, and once it has ended it
\* makes no further attempt and no further sleep.
C8_PayloadOrFinalError ==
    [][ LET call == request'
            n    == Len(call.attempts)
        IN  n > 0 =>
              /\ call.pc = "returned" =>
                   /\ call.result = [kind |-> "payload", attempt |-> n]
                   /\ call.attempts[n].outcome = "ok"
                   /\ \A k \in 1..(n - 1) : call.attempts[k].outcome = "error"
                   /\ Len(call.sleeps) = n - 1
              /\ call.pc = "thrown" =>
                   /\ call.result = [kind |-> "error", attempt |-> n]
                   /\ n = retries + 1
                   /\ AllFailed(call)
                   /\ Len(call.sleeps) = n - 1
              /\ ~Ended(call) => call.result.kind = "none"
              /\ call.pc # "idle"
              /\ Ended(request) /\ request.attempts # <<>> /\ call # request =>
                   /\ n = 1
                   /\ call.sleeps = <<>>
                   /\ call.attempts[1].outcome = "pending" ]_vars

\* the call returned the payload of its third attempt after two failures
C8_Witness ==
    /\ request.pc = "returned"
    /\ Len(request.attempts) = 3
    /\ request.result = PayloadOf(3)
    /\ request.sleeps = <<Backoff(1), Backoff(2)>>


\* ---------------------------------------------------------------------
\* The stop cache and getAllBusStops
\* ---------------------------------------------------------------------

busStopEndpoints == <<"BusStops", "BusStop", "bus-stops">>

\* const limit: the $top of a page request and the step of $skip
limit == 500

\* The stops an upstream that pages properly holds, page by page. Its pages
\* are shorter than limit, so the loop goes on until the empty page.
UpstreamPages ==
    << <<Stop("S050", 500, 0), Stop("S480", 4800, 0), Stop("S030", 0, 300),
         Stop("S1996", 0, 1996)>>,
       <<Stop("S120", 0, 1200), Stop("S1204", 1204, 0), Stop("S2004", 2004, 0)>> >>

\* What an upstream serves during one pass over a bulk path: "paged" pages
\* through UpstreamPages and ends with an empty page, "empty" has no stops,
\* "ignoresSkip" answers every request with its first page, "unrecognized"
\* answers with an object that has neither value nor data.
Upstreams == {"paged", "empty", "ignoresSkip", "unrecognized"}

UnrecognizedObject == [odata |-> "metadata"]

PageAt(skip) ==
    LET page == (skip \div limit) + 1
    IN  IF page <= Len(UpstreamPages) THEN UpstreamPages[page] ELSE <<>>

\* the bodies the upstream can answer a page request with: the list may
\* come as {value: [...]}, as {data: [...]} or bare
Bodies(upstream, skip) ==
    CASE upstream = "paged" ->
            {[shape |-> sh, items |-> PageAt(skip)] : sh \in {"value", "data", "array"}}
      [] upstream = "empty" ->
            {[shape |-> sh, items |-> <<>>] : sh \in {"value", "data", "array"}}
      [] upstream = "ignoresSkip" ->
            {[shape |-> "value", items |-> UpstreamPages[1]]}
      [] upstream = "unrecognized" ->
            {[shape |-> "object", items |-> <<UnrecognizedObject>>]}

\* data.value || data.data || data: the list of an envelope or a bare
\* list, and otherwise the object itself
busStopsOf(data) ==
    [array |-> data.shape \in {"value", "data", "array"}, items |-> data.items]

\* !busStops || busStops.length === 0: an object has no length
NoMoreBusStops(busStops) == busStops.array /\ Len(busStops.items) = 0

\* allBusStops.concat(busStops): what is not an array is appended as one element
concat(allBusStops, busStops) == allBusStops \o busStops.items

SafetyLimitReachedAt30(totalRequests) == totalRequests >= 30

\* totalRequests > 30
SafetyLimitReached(totalRequests) == totalRequests > 30

ShouldCommitAlways(allBusStops) == TRUE

\* allBusStops.length > 0
ShouldCommit(allBusStops) == Len(allBusStops) > 0

CacheAfterErrorPartial(cache, allBusStops) ==
    IF allBusStops = <<>> THEN cache ELSE [cache EXCEPT !.data = allBusStops]

\* the catch block of a bulk path logs and goes on to the next path
CacheAfterError(cache, allBusStops) == cache

\* the first request of a pass over a bulk path: allBusStops = [], skip = 0,
\* totalRequests++ and the request goes out
BeginPath(fetch, endpoint, upstream) ==
    [fetch EXCEPT !.pc = "paging", !.endpoint = endpoint, !.upstream = upstream,
                  !.allBusStops = <<>>, !.skip = 0, !.totalRequests = 1,
                  !.result = "none", !.value = <<>>]

\* a startup in which discovery has ended, with or without an endpoint
InitRefresh ==
    /\ nearbyCall = nearbyIdle
    /\ etaCall = etaIdle
    /\ arrivalsCall = arrivalsIdle
    /\ geoCall = geoIdle
    /\ combinedCall = combinedIdle
    /\ WORKING_API_ENDPOINT \in {null, "primary"}
    /\ workingAuthMethod = IF WORKING_API_ENDPOINT = null THEN 0 ELSE 1
    /\ discovery = [p \in {"initializeBot", "test"} |->
                      [discoveryIdle EXCEPT !.pc = Finished(p)]]
    /\ request = requestIdle
    /\ RefreshIdle
    /\ BotIdle
    /\ testCall = testIdle
    /\ searchCall = searchIdle

\* getAllBusStops is called: by initializeBot once an endpoint is pinned,
\* by handleLocationSearch whenever it finds the cache empty
CallGetAllBusStops(p) ==
    /\ IF p = "initializeBot"
       THEN fetches[p].pc = "idle" /\ WORKING_API_ENDPOINT # null
       ELSE fetches[p].pc \in {"idle", "returned"} /\ Len(busStopsCache.data) = 0
    /\ \E upstream \in Upstreams :
         fetches' = [fetches EXCEPT ![p] = BeginPath(fetchIdle, 1, upstream)]
    /\ UNCHANGED <<busStopsCache, clock, clientVars, pureVars, botVars>>

FallbackValueNothing(cache) == <<>>

\* return busStopsCache.data
FallbackValue(cache) == cache.data

\* the path is left without a commit: the next path is tried, and after
\* the last one the cache is returned as it is; answered tells whether the
\* request that ended the path had returned a body
TryNextPath(p, cache, answered) ==
    LET fetch == [fetches[p] EXCEPT !.answered = @ \/ answered]
    IN  /\ IF fetch.endpoint < Len(busStopEndpoints)
           THEN \E upstream \in Upstreams :
                  fetches' = [fetches EXCEPT
                                ![p] = BeginPath(fetch, fetch.endpoint + 1, upstream)]
           ELSE fetches' = [fetches EXCEPT ![p] = [fetch EXCEPT
                                                     !.pc = "returned",
                                                     !.result = "fallback",
                                                     !.value = FallbackValue(cache)]]
        /\ busStopsCache' = cache
        /\ UNCHANGED clock

\* the stops are added to what the cache holds
AfterLoopAppendsToCache(p, allBusStops) ==
    IF ShouldCommit(allBusStops)
    THEN /\ busStopsCache' = [data |-> busStopsCache.data \o allBusStops,
                              lastUpdated |-> clock + 1]
         /\ clock' = clock + 1
         /\ fetches' = [fetches EXCEPT ![p].pc = "returned", ![p].result = "loaded",
                                       ![p].answered = TRUE,
                                       ![p].allBusStops = allBusStops,
                                       ![p].value = allBusStops]
    ELSE TryNextPath(p, busStopsCache, TRUE)

\* the stops replace the cache and the timestamp is left as it was
AfterLoopKeepsTimestamp(p, allBusStops) ==
    IF ShouldCommit(allBusStops)
    THEN /\ busStopsCache' = [busStopsCache EXCEPT !.data = allBusStops]
         /\ clock' = clock + 1
         /\ fetches' = [fetches EXCEPT ![p].pc = "returned", ![p].result = "loaded",
                                       ![p].answered = TRUE,
                                       ![p].allBusStops = allBusStops,
                                       ![p].value = allBusStops]
    ELSE TryNextPath(p, busStopsCache, TRUE)

\* after the while loop: the accumulated stops replace the cache and are
\* returned, unless there are none
AfterLoop(p, allBusStops) ==
    IF ShouldCommit(allBusStops)
    THEN /\ busStopsCache' = [data |-> allBusStops, lastUpdated |-> clock + 1]
         /\ clock' = clock + 1
         /\ fetches' = [fetches EXCEPT ![p].pc = "returned", ![p].result = "loaded",
                                       ![p].answered = TRUE,
                                       ![p].allBusStops = allBusStops,
                                       ![p].value = allBusStops]
    ELSE TryNextPath(p, busStopsCache, TRUE)

\* makeAPIRequest returns the body of a page: the loop body up to the next
\* request, the page limit included, and what follows the loop when it breaks
PageReturned(p) ==
    LET fetch == fetches[p]
    IN  /\ fetch.pc = "paging"
        /\ WORKING_API_ENDPOINT # null
        /\ \E data \in Bodies(fetch.upstream, fetch.skip) :
             LET busStops == busStopsOf(data)
                 allBusStops == concat(fetch.allBusStops, busStops)
             IN  IF NoMoreBusStops(busStops)
                 THEN AfterLoop(p, fetch.allBusStops)
                 ELSE IF SafetyLimitReached(fetch.totalRequests)
                      THEN AfterLoop(p, allBusStops)
                      ELSE /\ fetches' = [fetches EXCEPT
                                            ![p].answered = TRUE,
                                            ![p].allBusStops = allBusStops,
                                            ![p].skip = fetch.skip + limit,
                                            ![p].totalRequests = fetch.totalRequests + 1]
                           /\ UNCHANGED <<busStopsCache, clock>>
        /\ UNCHANGED <<clientVars, pureVars, botVars>>

\* makeAPIRequest throws, having no endpoint or after its last retry, or the
\* body is null and reading data.value throws: the catch block
PageThrown(p) ==
    /\ fetches[p].pc = "paging"
    /\ TryNextPath(p, CacheAfterError(busStopsCache, fetches[p].allBusStops), FALSE)
    /\ UNCHANGED <<clientVars, pureVars, botVars>>

NextRefresh ==
    \/ \E p \in {"initializeBot", "handleLocationSearch"} : CallGetAllBusStops(p)
    \/ \E p \in {"initializeBot", "handleLocationSearch"} : PageReturned(p)
    \/ \E p \in {"initializeBot", "handleLocationSearch"} : PageThrown(p)

SpecRefresh == InitRefresh /\ [][NextRefresh]_vars


Fetchers == DOMAIN fetches

\* a step in which the execution p ends by committing what it accumulated
Commits(p) ==
    /\ fetches[p].pc = "paging"
    /\ fetches'[p].pc = "returned"
    /\ fetches'[p].result = "loaded"
    /\ fetches'[p].value # <<>>
    /\ busStopsCache'.data = fetches'[p].value
    /\ busStopsCache'.lastUpdated > busStopsCache.lastUpdated

\* a step in which the execution p ends without a commit, its last path
\* having thrown or yielded no stops
Fails(p) ==
    /\ fetches[p].pc = "paging"
    /\ fetches'[p].result = "fallback"

\* C3: a getAllBusStops execution that fails never writes the cache: every
\* step that changes busStopsCache.data or busStopsCache.lastUpdated is the
\* last step of an execution that ends with a non-empty result; the steps of
\* a path that throws or yields no stops, and the step in which the
\* execution gives up, leave both fields as they were, and the execution
\* then returns the cache it left alone.
C3_FailedRefreshKeepsCache ==
    [][ /\ busStopsCache' # busStopsCache => \E p \in Fetchers : Commits(p)
        /\ \A p \in Fetchers :
             /\ fetches'[p] # fetches[p] /\ ~Commits(p) => busStopsCache' = busStopsCache
             /\ Fails(p) =>
                  /\ busStopsCache' = busStopsCache
                  /\ fetches'[p].pc = "returned"
                  /\ fetches'[p].value = busStopsCache.data ]_vars

\* an execution gave up after its last path had accumulated stops and then
\* thrown; the cache is still the one the module created
C3_Witness ==
    \E p \in Fetchers :
        /\ fetches[p].result = "fallback"
        /\ fetches[p].endpoint = Len(busStopEndpoints)
        /\ Len(fetches[p].allBusStops) > 0
        /\ busStopsCache = [data |-> <<>>, lastUpdated |-> 0]

\* all pages of the upstream that pages properly, up to its empty page
CompleteFetch == UpstreamPages[1] \o UpstreamPages[2]

\* C4: the cached sequence is the initial empty one or the concatenation of
\* all pages of a fetch that ran to its empty page.
C4_Original ==
    \/ busStopsCache.data = <<>>
    \/ busStopsCache.data = CompleteFetch


\* ---------------------------------------------------------------------
\* The handlers: sessions, preferences and the queries
\* ---------------------------------------------------------------------

\* where a location is shared or an address resolves to: two points near
\* the stops, and a point on the equator
BotOrigins == { <<1, 1>>, <<1, 1000>>, <<0, 1000>> }

\* what follows "stops_" and "radius_" in the callback data: the buttons of
\* the keyboards, and data no keyboard offers
StopsData == { <<"3">>, <<"7">>, <<"-", "1">>, <<"x">> }

RadiusData == { <<"1", "0", "0">>, <<"5", "0", "0">>, <<"x">> }

\* { radius: SEARCH_RADIUS, maxStops: MAX_BUS_STOPS }
DefaultPrefs == [radius |-> Num(SEARCH_RADIUS), maxStops |-> Num(MAX_BUS_STOPS)]

\* the lookup left out: the defaults whatever is stored
PrefsOfIgnoresStored(u) == DefaultPrefs

\* userPreferences.get(chatId) || the defaults
PrefsOf(u) ==
    IF userPreferences[u].present
    THEN [radius |-> userPreferences[u].radius, maxStops |-> userPreferences[u].maxStops]
    ELSE DefaultPrefs

\* the entry is rebuilt from the radius alone
StoredPrefsRadiusOnly(prefs) ==
    [present |-> TRUE, radius |-> prefs.radius, maxStops |-> Num(MAX_BUS_STOPS)]

StoredPrefs(prefs) ==
    [present |-> TRUE, radius |-> prefs.radius, maxStops |-> prefs.maxStops]

Session(located, latitude, longitude, waitingForAddress) ==
    [present |-> TRUE, located |-> located, latitude |-> latitude,
     longitude |-> longitude, waitingForAddress |-> waitingForAddress]

\* { ...session, waitingForAddress: true }
AwaitingAddress(session) ==
    IF session.present THEN [session EXCEPT !.waitingForAddress = TRUE]
    ELSE Session(FALSE, 0, 0, TRUE)

\* { ...session, latitude, longitude, waitingForAddress: false }
Located(session, latitude, longitude) == Session(TRUE, latitude, longitude, FALSE)

\* session && session.latitude && session.longitude
HasLocation(session) ==
    /\ session.present
    /\ session.located
    /\ session.latitude # 0
    /\ session.longitude # 0

\* Array.prototype.slice(0, end): NaN counts as 0, a negative end counts
\* back from the end of the array
SliceFromStart(s, end) ==
    LET n == Len(s)
        e == IF end.nan THEN 0
             ELSE IF end.v < 0 THEN (IF n + end.v < 0 THEN 0 ELSE n + end.v)
             ELSE Min(end.v, n)
    IN  SubSeq(s, 1, e)

Free(u) == handlers[u].pc \in {"idle", "replied"}

\* the coordinates of a located query: a shared location, or an address
\* that geocodeAddress resolved
LocatedQuery(latitude, longitude) ==
    [present |-> TRUE, latitude |-> latitude, longitude |-> longitude]

Replied(kind) ==
    [pc |-> "replied", reply |-> [kind |-> kind, stops |-> <<>>, maxStops |-> NaN]]

\* what a query searched for: its origin and the radius it read
Query(latitude, longitude, radius) ==
    [latitude |-> latitude, longitude |-> longitude, radius |-> radius]

Listing(entry, query, stops, maxStops) ==
    [pc |-> "replied",
     reply |-> [kind |-> "listing", entry |-> entry, query |-> query,
                stops |-> stops, maxStops |-> maxStops]]

handleLocationSearchRethrows == [pc |-> "thrown"]

\* the catch of handleLocationSearch (1362-1368): the generic error message
handleLocationSearchCatch == Replied("error")

\* await bot.editMessageText(...) inside the try of handleLocationSearch:
\* the edit goes through and the handler is where it was heading, or the
\* edit is rejected and the catch block runs
AfterEdit(handler) == {handler, handleLocationSearchCatch}

Searching(entry, latitude, longitude) ==
    [pc |-> "searching", entry |-> entry, latitude |-> latitude, longitude |-> longitude]

\* the startup is over: no endpoint and an empty cache, or an endpoint and
\* the cache empty or preloaded
InitBot ==
    /\ nearbyCall = nearbyIdle
    /\ etaCall = etaIdle
    /\ arrivalsCall = arrivalsIdle
    /\ geoCall = geoIdle
    /\ combinedCall = combinedIdle
    /\ WORKING_API_ENDPOINT \in {null, "primary"}
    /\ workingAuthMethod = IF WORKING_API_ENDPOINT = null THEN 0 ELSE 1
    /\ discovery = [p \in {"initializeBot", "test"} |->
                      [discoveryIdle EXCEPT !.pc = Finished(p)]]
    /\ request = requestIdle
    /\ fetches = [p \in {"initializeBot", "handleLocationSearch"} |-> fetchIdle]
    /\ \/ busStopsCache = [data |-> <<>>, lastUpdated |-> 0] /\ clock = 0
       \/ /\ WORKING_API_ENDPOINT # null
          /\ busStopsCache = [data |-> UpstreamPages[1] \o UpstreamPages[2],
                              lastUpdated |-> 1]
          /\ clock = 1
    /\ BotIdle
    /\ testCall = testIdle
    /\ searchCall = searchIdle

\* bot.on('location'): handleLocationSearch is called and sends its message
LocationShared(u) ==
    /\ Free(u)
    /\ \E origin \in BotOrigins :
         /\ handlers' = [handlers EXCEPT ![u] = Searching("location", origin[1], origin[2])]
         /\ lastLocatedQuery' = [lastLocatedQuery EXCEPT
                                  ![u] = LocatedQuery(origin[1], origin[2])]
    /\ UNCHANGED <<userPreferences, userSessions, addressPrompts, clientVars, refreshVars, pureVars>>

\* /search: the prompt is sent, then the session is marked
SearchCommand(u) ==
    /\ userSessions' = [userSessions EXCEPT
                          ![chatId(u)] = AwaitingAddress(userSessions[chatId(u)])]
    /\ UNCHANGED <<userPreferences, handlers, lastLocatedQuery, addressPrompts, clientVars, refreshVars, pureVars>>

\* if (session): any session will do
WaitingForAddressAnySession(session) == session.present

\* line 1256: session && session.waitingForAddress
WaitingForAddress(session) == session.present /\ session.waitingForAddress

\* bot.on('text') with a text that is no command and no button: an address
\* search if the session read at the start is awaiting one, and otherwise
\* the handler returns having done nothing
FreeText(u) ==
    /\ Free(u)
    /\ handlers' = [handlers EXCEPT
                      ![u] = IF WaitingForAddress(userSessions[u])
                             THEN [pc |-> "geocoding", text |-> "address",
                                   session |-> userSessions[u]]
                             ELSE Replied("ignored")]
    /\ UNCHANGED <<userPreferences, userSessions, lastLocatedQuery, addressPrompts, clientVars, refreshVars, pureVars>>

\* bot.on('text') with the text of the Refresh button: a search at the
\* session's location if it has one, and otherwise the text goes the way
\* of any other text
RefreshPressed(u) ==
    LET session == userSessions[u]
    IN  /\ Free(u)
        /\ handlers' = [handlers EXCEPT
                          ![u] = IF HasLocation(session)
                                 THEN Searching("refresh", session.latitude, session.longitude)
                                 ELSE IF WaitingForAddress(session)
                                      THEN [pc |-> "geocoding", text |-> "refresh",
                                            session |-> session]
                                      ELSE Replied("ignored")]
        /\ UNCHANGED <<userPreferences, userSessions, lastLocatedQuery, addressPrompts, clientVars, refreshVars, pureVars>>

\* geocodeAddress returns a location or null
GeocodeEnds(u) ==
    /\ handlers[u].pc = "geocoding"
    /\ \/ \E origin \in BotOrigins :
            /\ userSessions' = [userSessions EXCEPT
                                  ![u] = Located(handlers[u].session, origin[1], origin[2])]
            /\ handlers' = [handlers EXCEPT ![u] = Searching("address", origin[1], origin[2])]
            /\ lastLocatedQuery' = [lastLocatedQuery EXCEPT
                                     ![u] = LocatedQuery(origin[1], origin[2])]
       \/ /\ handlers' = [handlers EXCEPT ![u] = Replied("notFound")]
          /\ UNCHANGED <<userSessions, lastLocatedQuery>>
    /\ UNCHANGED <<userPreferences, addressPrompts, clientVars, refreshVars, pureVars>>

\* lines 1330-1351: the preferences are read, the stops are searched, and
\* the handler reports how many it found or that it found none
Found(u, busStopsData) ==
    LET h == handlers[u]
        userPrefs == PrefsOf(u)
        nearbyStops == findNearbyBusStops(h.latitude, h.longitude, busStopsData,
                                          userPrefs.radius)
    IN  IF Len(nearbyStops) = 0 THEN Replied("noneFound")
        ELSE [pc |-> "found", entry |-> h.entry,
              query |-> Query(h.latitude, h.longitude, userPrefs.radius),
              nearbyStops |-> nearbyStops,
              stored |-> userPreferences[u].present, userPrefs |-> userPrefs]

\* handleLocationSearch after its first message: the session is written,
\* and the cache is used if it holds stops
SearchBegins(u) ==
    LET h == handlers[u]
    IN  /\ h.pc = "searching"
        /\ userSessions' = [userSessions EXCEPT
                              ![u] = Located(userSessions[u], h.latitude, h.longitude)]
        /\ IF Len(busStopsCache.data) > 0
           THEN \E handler \in AfterEdit(Found(u, busStopsCache.data)) :
                   handlers' = [handlers EXCEPT ![u] = handler]
           ELSE handlers' = [handlers EXCEPT ![u].pc = "fetching"]
        /\ UNCHANGED <<userPreferences, lastLocatedQuery, addressPrompts, clientVars, refreshVars, pureVars>>

\* getAllBusStops returns to handleLocationSearch: it has loaded the stops
\* of the upstream into the cache, or it returns the cache as it is
FetchEnds(u) ==
    /\ handlers[u].pc = "fetching"
    /\ \/ /\ WORKING_API_ENDPOINT # null
          /\ LET allBusStops == UpstreamPages[1] \o UpstreamPages[2]
             IN  /\ busStopsCache' = [data |-> allBusStops, lastUpdated |-> clock + 1]
                 /\ clock' = clock + 1
                 /\ \E handler \in AfterEdit(Found(u, allBusStops)) :
                       handlers' = [handlers EXCEPT ![u] = handler]
       \/ /\ UNCHANGED <<busStopsCache, clock>>
          /\ \E handler \in AfterEdit(IF Len(busStopsCache.data) = 0 THEN Replied("unable")
                                       ELSE Found(u, busStopsCache.data)) :
                handlers' = [handlers EXCEPT ![u] = handler]
    /\ UNCHANGED <<fetches, userPreferences, userSessions, lastLocatedQuery, addressPrompts, clientVars, pureVars>>

\* the object userPrefs refers to: the stored entry, unless a reset has
\* replaced it or there was none
MaxStopsOf(u) ==
    IF handlers[u].stored THEN userPreferences[u].maxStops
    ELSE handlers[u].userPrefs.maxStops

\* line 1353: nearbyStops.slice(0, userPrefs.maxStops) is formatted and sent
ListStops(u) ==
    /\ handlers[u].pc = "found"
    /\ \E handler \in AfterEdit(Listing(handlers[u].entry, handlers[u].query,
                                          SliceFromStart(handlers[u].nearbyStops,
                                                         MaxStopsOf(u)),
                                          MaxStopsOf(u))) :
          handlers' = [handlers EXCEPT ![u] = handler]
    /\ UNCHANGED <<userPreferences, userSessions, lastLocatedQuery, addressPrompts, clientVars, refreshVars, pureVars>>

\* the refresh_all callback up to its first message: without a location in
\* the session it only answers the callback
RefreshAllPressed(u) ==
    LET session == userSessions[u]
    IN  /\ Free(u)
        /\ handlers' = [handlers EXCEPT
                          ![u] = IF HasLocation(session)
                                 THEN [pc |-> "refreshingAll", latitude |-> session.latitude,
                                       longitude |-> session.longitude]
                                 ELSE Replied("noLocation")]
        /\ UNCHANGED <<userPreferences, userSessions, lastLocatedQuery, addressPrompts, clientVars, refreshVars, pureVars>>

\* lines 1404-1422: the preferences are read, the cache is searched as it
\* is, and the first maxStops stops are formatted and sent
RefreshAllLists(u) ==
    LET h == handlers[u]
        userPrefs == PrefsOf(u)
        nearbyStops == findNearbyBusStops(h.latitude, h.longitude, busStopsCache.data,
                                          userPrefs.radius)
    IN  /\ h.pc = "refreshingAll"
        /\ handlers' = [handlers EXCEPT
                          ![u] = IF Len(nearbyStops) = 0 THEN Replied("noneFound")
                                 ELSE Listing("refresh_all",
                                              Query(h.latitude, h.longitude, userPrefs.radius),
                                              SliceFromStart(nearbyStops, userPrefs.maxStops),
                                              userPrefs.maxStops)]
        /\ UNCHANGED <<userPreferences, userSessions, lastLocatedQuery, addressPrompts, clientVars, refreshVars, pureVars>>

\* the callback radius_<data>
SetRadius(u) ==
    /\ \E data \in RadiusData :
         userPreferences' = [userPreferences EXCEPT
                               ![chatId(u)] = StoredPrefs([PrefsOf(chatId(u)) EXCEPT
                                                             !.radius = parseInt(data)])]
    /\ UNCHANGED <<userSessions, handlers, lastLocatedQuery, addressPrompts, clientVars, refreshVars, pureVars>>

\* the callback stops_<data>
SetStops(u) ==
    /\ \E data \in StopsData :
         userPreferences' = [userPreferences EXCEPT
                               ![chatId(u)] = StoredPrefs([PrefsOf(chatId(u)) EXCEPT
                                                             !.maxStops = parseInt(data)])]
    /\ UNCHANGED <<userSessions, handlers, lastLocatedQuery, addressPrompts, clientVars, refreshVars, pureVars>>

\* the callback setting_reset: a new entry replaces the stored one, and a
\* handler that holds the old one keeps it
ResetSettings(u) ==
    /\ userPreferences' = [userPreferences EXCEPT ![u] = StoredPrefs(DefaultPrefs)]
    /\ handlers' = IF handlers[u].pc = "found" /\ handlers[u].stored
                   THEN [handlers EXCEPT ![u].stored = FALSE, ![u].userPrefs = PrefsOf(u)]
                   ELSE handlers
    /\ UNCHANGED <<userSessions, lastLocatedQuery, addressPrompts, clientVars, refreshVars, pureVars>>

\* the Search Address button, lines 1221-1225: the session is read and the
\* prompt goes out
SearchAddressPressed(u) ==
    /\ ~addressPrompts[u].present
    /\ addressPrompts' = [addressPrompts EXCEPT
                            ![u] = [present |-> TRUE, session |-> userSessions[u]]]
    /\ UNCHANGED <<userPreferences, userSessions, handlers, lastLocatedQuery,
                   clientVars, refreshVars, pureVars>>

\* line 1236, once the prompt is sent: { ...session, waitingForAddress: true }
\* with the session read at 1221
AddressPromptSent(u) ==
    /\ addressPrompts[u].present
    /\ userSessions' = [userSessions EXCEPT
                          ![u] = AwaitingAddress(addressPrompts[u].session)]
    /\ addressPrompts' = [addressPrompts EXCEPT ![u] = NoEntry]
    /\ UNCHANGED <<userPreferences, handlers, lastLocatedQuery,
                   clientVars, refreshVars, pureVars>>

NextBot ==
    \/ \E u \in Users : LocationShared(u)
    \/ \E u \in Users : SearchCommand(u)
    \/ \E u \in Users : FreeText(u)
    \/ \E u \in Users : RefreshPressed(u)
    \/ \E u \in Users : GeocodeEnds(u)
    \/ \E u \in Users : SearchBegins(u)
    \/ \E u \in Users : FetchEnds(u)
    \/ \E u \in Users : ListStops(u)
    \/ \E u \in Users : RefreshAllPressed(u)
    \/ \E u \in Users : RefreshAllLists(u)
    \/ \E u \in Users : SetRadius(u)
    \/ \E u \in Users : SetStops(u)
    \/ \E u \in Users : ResetSettings(u)

SpecBot == InitBot /\ [][NextBot]_vars

\* the events that read or write a session, the Search Address button
\* among them, for a user who keeps the default preferences
NextSessions ==
    \/ \E u \in Users : LocationShared(u)
    \/ \E u \in Users : SearchCommand(u)
    \/ \E u \in Users : SearchAddressPressed(u)
    \/ \E u \in Users : AddressPromptSent(u)
    \/ \E u \in Users : FreeText(u)
    \/ \E u \in Users : RefreshPressed(u)
    \/ \E u \in Users : GeocodeEnds(u)
    \/ \E u \in Users : SearchBegins(u)
    \/ \E u \in Users : FetchEnds(u)
    \/ \E u \in Users : ListStops(u)
    \/ \E u \in Users : RefreshAllPressed(u)
    \/ \E u \in Users : RefreshAllLists(u)

SpecSessions == InitBot /\ [][NextSessions]_vars

\* C2: whenever a query is answered with a listing, the number of stops
\* listed is at most the maxStops of the user's preferences; a listing of
\* no stops is within any limit.
C2_Original ==
    \A u \in Users :
        handlers[u].pc = "replied" /\ handlers[u].reply.kind = "listing" =>
            \/ Len(handlers[u].reply.stops) = 0
            \/ JsLeq(Num(Len(handlers[u].reply.stops)), handlers[u].reply.maxStops)


\* ---------------------------------------------------------------------
\* geocodeAddress
\* ---------------------------------------------------------------------

\* a field an object does not have
Missing == <<"undefined">>

\* parseFloat of a field: NaN for a missing field or a text without a
\* leading number; the coordinates of the model have no fraction
parseFloat(field) == IF field = Missing THEN NaN ELSE parseInt(field)

\* an entry of response.data.results
GeoResult(lat, lng, address, searchval) ==
    [isNull |-> FALSE, LATITUDE |-> lat, LONGITUDE |-> lng,
     ADDRESS |-> address, SEARCHVAL |-> searchval]

NullEntry == [isNull |-> TRUE]

\* what the request to the provider ends with: a rejection (timeout,
\* network error, non-2xx), or a 2xx whose body is empty, has no results
\* field, or has a results list
GeoResponses ==
    [kind : {"timeout", "network", "non2xx", "emptyBody", "noResults"}]
    \cup [kind : {"results"},
          results : {<<>>, <<NullEntry>>}
                    \cup {<<GeoResult(lat, lng, address, "SEARCHVAL")>> :
                            lat \in {<<"1">>, <<"1", "0", "0", "0">>, Missing},
                            lng \in {<<"1">>, <<"x">>},
                            address \in {"ADDRESS", "", "undefined"}}
                    \cup {<<GeoResult(<<"1">>, <<"1">>, "FIRST", "SEARCHVAL"),
                            GeoResult(<<"9">>, <<"9">>, "SECOND", "SEARCHVAL")>>}]

\* the texts a user may type: a name of the spec's gazetteer, a part of
\* one, and a text that matches nothing
GeoTexts == {"marina bay sands", "marina", "zzz"}

\* result.ADDRESS || result.SEARCHVAL
DisplayAddress(result) ==
    IF result.ADDRESS \in {"", "undefined"} THEN result.SEARCHVAL ELSE result.ADDRESS

\* lines 992-1011, the body of the try: what it returns, or that it throws
geocodeTry(address, response) ==
    IF response.kind \in {"timeout", "network", "non2xx"} THEN [kind |-> "throws"]
    ELSE IF response.kind \in {"emptyBody", "noResults"} THEN [kind |-> "null"]
    ELSE IF Len(response.results) = 0 THEN [kind |-> "null"]
    ELSE LET result == response.results[1]
         IN  IF result.isNull THEN [kind |-> "throws"]
             ELSE [kind |-> "location",
                   latitude |-> parseFloat(result.LATITUDE),
                   longitude |-> parseFloat(result.LONGITUDE),
                   address |-> DisplayAddress(result)]

geocodeCatchRethrows(outcome) == outcome

\* lines 1012-1015, the catch block: the error is logged and null returned
geocodeCatch(outcome) == IF outcome.kind = "throws" THEN [kind |-> "null"] ELSE outcome

geocodeAddress(address, response) == geocodeCatch(geocodeTry(address, response))

InitGeocode ==
    /\ geoCall \in [state : {"called"}, address : GeoTexts, response : GeoResponses,
                    result : {[kind |-> "none"]}]
    /\ nearbyCall = nearbyIdle
    /\ etaCall = etaIdle
    /\ arrivalsCall = arrivalsIdle
    /\ combinedCall = combinedIdle
    /\ ClientIdle
    /\ RefreshIdle
    /\ BotIdle
    /\ testCall = testIdle
    /\ searchCall = searchIdle

CallGeocodeAddress ==
    /\ geoCall.state = "called"
    /\ geoCall' = [geoCall EXCEPT !.state = "ended",
                                  !.result = geocodeAddress(geoCall.address, geoCall.response)]
    /\ UNCHANGED <<nearbyCall, etaCall, arrivalsCall, combinedCall, testCall, searchCall, clientVars, refreshVars, botVars>>

NextGeocode == CallGeocodeAddress

SpecGeocode == InitGeocode /\ [][NextGeocode]_vars

\* the provider did not resolve the text: the request failed or the body
\* has no usable first result
Unresolved(response) ==
    \/ response.kind # "results"
    \/ response.results = <<>>
    \/ response.results[1].isNull

\* the spec's gazetteer: strategy 4 matches a name, strategy 5 a part of one
InGazetteer(address) == address \in {"marina bay sands", "marina"}

\* C11: a text that the provider does not resolve but that matches the
\* local gazetteer, exactly or by substring, is resolved to a location and
\* not reported not found.
C11_Original ==
    geoCall.state = "ended" /\ Unresolved(geoCall.response) /\ InGazetteer(geoCall.address)
        => geoCall.result.kind = "location"

\* C12: geocodeAddress never throws: whatever the text and whatever the
\* request to the provider ends with, the call ends with a location or
\* with null, and with null whenever the request was rejected or the body
\* has no first result to read.
C12_GeocodeNeverThrows ==
    geoCall.state = "ended" =>
        /\ geoCall.result.kind \in {"location", "null"}
        /\ Unresolved(geoCall.response) => geoCall.result.kind = "null"
        /\ geoCall.result.kind = "location" =>
             geoCall.result.address \in {"ADDRESS", "SEARCHVAL", "FIRST"}

\* the request timed out, or the first entry of the list could not be
\* read, and the call ended with null
C12_Witness ==
    /\ geoCall.state = "ended"
    /\ \/ geoCall.response.kind = "timeout"
       \/ geoCall.response.kind = "results" /\ geoCall.response.results = <<NullEntry>>
    /\ geoCall.result = [kind |-> "null"]


\* C13: at most one execution of getAllBusStops is in progress at any time.
C13_Original == Cardinality({p \in Fetchers : fetches[p].pc = "paging"}) <= 1


\* ---------------------------------------------------------------------
\* getBusArrivals and formatCombinedBusArrivalsMessage
\* ---------------------------------------------------------------------

arrivalEndpoints == <<"BusArrivalv2", "BusArrival", "bus-arrival">>

NullData == [isNull |-> TRUE, Services |-> <<>>]

ArrivalsData(Services) == [isNull |-> FALSE, Services |-> Services]

\* what makeAPIRequest ends with on one arrival path: it throws (with the
\* status of the response, 0 when there was none), or it returns a body
\* the test of line 917 rejects, or a body with Services
ArrivalResponses ==
    [kind : {"throws"}, status : {0, 404, 500}]
    \cup [kind : {"unusable"}]
    \cup [kind : {"data"},
          data : {ArrivalsData(<<>>), ArrivalsData(SubSeq(ServicePool, 2, 2)),
                  ArrivalsData(SubSeq(ServicePool, 4, 5))}]

\* the HTTP status a path answered with: error.response?.status of a call
\* that threw (0 when there was no response), 200 of one that returned
StatusOf(response) == IF response.kind = "throws" THEN response.status ELSE 200

\* data && (data.Services || data.services || data.BusStopCode)
Usable(response) == response.kind = "data"

RECURSIVE TryArrivalPaths(_, _, _)
\* the loop of lines 912-925 from path i on: the data of the first path
\* that answers with a usable body, and the paths requested
TryArrivalPaths(responses, i, requested) ==
    IF i > Len(arrivalEndpoints) THEN [data |-> NullData, requested |-> requested]
    ELSE IF Usable(responses[i])
         THEN [data |-> responses[i].data, requested |-> Append(requested, arrivalEndpoints[i])]
         ELSE TryArrivalPaths(responses, i + 1, Append(requested, arrivalEndpoints[i]))

getBusArrivals(responses) == TryArrivalPaths(responses, 1, <<>>)

\* the number of stops a combined message is asked for
MaxListed == 3

ListedStops == {"S030", "S050", "S120", "S1204"}

\* the section of one stop: its header, then what stopSection makes of
\* the arrivals data
SectionOf(code, arrivalsData, now) ==
    LET section == stopSection(arrivalsData, now)
    IN  [code |-> code, marker |-> section.marker, lines |-> section.lines]

InitCombined ==
    /\ combinedCall \in
         [state : {"formatting"},
          nearbyStops : {stops \in InjSeqs(ListedStops, MaxListed) : Len(stops) > 0},
          index : {1}, paths : {<<>>}, primaryStatus : {0},
          fetched : {<<>>}, sections : {<<>>}]
    /\ nearbyCall = nearbyIdle
    /\ etaCall = etaIdle
    /\ arrivalsCall = arrivalsIdle
    /\ geoCall = geoIdle
    /\ ClientIdle
    /\ RefreshIdle
    /\ BotIdle
    /\ testCall = testIdle
    /\ searchCall = searchIdle

\* one round of the loop of formatCombinedBusArrivalsMessage:
\* getBusArrivals ends for the stop at index, and its section is added
FetchArrivals ==
    /\ combinedCall.state = "formatting"
    /\ \E responses \in [1..Len(arrivalEndpoints) -> ArrivalResponses] :
         LET c == combinedCall
             got == getBusArrivals(responses)
             last == c.index = Len(c.nearbyStops)
         IN  combinedCall' =
               [c EXCEPT !.state = IF last THEN "returned" ELSE "formatting",
                         !.index = IF last THEN c.index ELSE c.index + 1,
                         !.paths = got.requested,
                         !.primaryStatus = StatusOf(responses[1]),
                         !.fetched = Append(c.fetched, got.data),
                         !.sections = Append(c.sections,
                                             SectionOf(c.nearbyStops[c.index], got.data, 4))]
    /\ UNCHANGED <<nearbyCall, etaCall, arrivalsCall, geoCall, testCall, searchCall, clientVars, refreshVars, botVars>>

NextCombined == FetchArrivals

SpecCombined == InitCombined /\ [][NextCombined]_vars


\* the arrival fetch of the stop at position i failed: every path threw or
\* answered with an unusable body
FetchFailed(i) == combinedCall.fetched[i].isNull

\* C14: the combined reply has one section per nearby stop in rank order;
\* the marker carried by the section of a stop whose fetch failed appears in
\* no section of a stop whose fetch succeeded, and every other section is
\* what the fetched arrivals format to.
C14_Original ==
    combinedCall.state = "returned" =>
        LET c == combinedCall
            positions == 1..Len(c.nearbyStops)
        IN  /\ Len(c.sections) = Len(c.nearbyStops)
            /\ \A i \in positions : c.sections[i].code = c.nearbyStops[i]
            /\ \A i \in positions : ~FetchFailed(i) =>
                   c.sections[i].lines = stopSection(c.fetched[i], 4).lines
            /\ \A i, j \in positions : FetchFailed(i) /\ ~FetchFailed(j) =>
                   c.sections[i].marker # c.sections[j].marker


\* a step in which the execution p returns, none of its requests having
\* been answered
ReturnsAfterTotalFailure(p) ==
    /\ fetches[p].pc = "paging"
    /\ fetches'[p].pc = "returned"
    /\ ~fetches'[p].answered

\* C15: an execution of getAllBusStops in which every bulk request failed,
\* with or without a pinned endpoint, ends by returning to its caller, not
\* by throwing: it has tried every bulk path, and what it returns is the
\* cache as it stands, empty or not, which it leaves untouched.
C15_TotalFailureReturnsSnapshot ==
    [][ \A p \in Fetchers : ReturnsAfterTotalFailure(p) =>
            /\ fetches'[p].result = "fallback"
            /\ fetches'[p].endpoint = Len(busStopEndpoints)
            /\ fetches'[p].value = busStopsCache.data
            /\ busStopsCache' = busStopsCache ]_vars

\* a query whose refresh got no answer at all returned the stops that the
\* preload had cached in the meantime
C15_Witness ==
    /\ fetches["handleLocationSearch"].pc = "returned"
    /\ ~fetches["handleLocationSearch"].answered
    /\ fetches["handleLocationSearch"].value = CompleteFetch
    /\ busStopsCache.data = CompleteFetch

\* the same with no endpoint pinned: the empty cache is returned
C15_WitnessUnpinned ==
    /\ WORKING_API_ENDPOINT = null
    /\ fetches["handleLocationSearch"].pc = "returned"
    /\ fetches["handleLocationSearch"].value = <<>>


\* a step in which the query of u reads the cache to search it
ReadsCache(u) ==
    /\ handlers[u].pc \in {"searching", "refreshingAll"}
    /\ handlers'[u] # handlers[u]

\* C16: a proximity query that finds the cache empty, whichever way it came
\* in, calls getAllBusStops before it searches.
C16_Original ==
    [][ \A u \in Users :
            ReadsCache(u) /\ Len(busStopsCache.data) = 0 =>
                handlers'[u].pc = "fetching" ]_vars


\* a step in which a refresh of u begins to be handled, by the text handler
\* or by the refresh_all callback, no other handler of u being in flight
RefreshRequested(u) == RefreshPressed(u) \/ RefreshAllPressed(u)

\* C17: once u has made a located query, every refresh of u searches around
\* the coordinates of the most recent one, and the search of a refresh uses
\* the radius of the preferences as they are when it searches.
C17_Original ==
    [][ \A u \in Users :
          /\ RefreshRequested(u) /\ lastLocatedQuery[u].present =>
                /\ handlers'[u].pc \in {"searching", "refreshingAll"}
                /\ handlers'[u].latitude = lastLocatedQuery[u].latitude
                /\ handlers'[u].longitude = lastLocatedQuery[u].longitude
          /\ /\ handlers[u].pc \in {"searching", "fetching"}
             /\ handlers[u].entry = "refresh"
             /\ handlers'[u].pc = "found"
             => handlers'[u].nearbyStops =
                    findNearbyBusStops(handlers[u].latitude, handlers[u].longitude,
                                       busStopsCache'.data, PrefsOf(u).radius) ]_vars


\* a step in which makeAPIRequest is called
CallBegins ==
    /\ request.pc \in {"idle", "returned", "thrown"}
    /\ request' # request

\* C18: a makeAPIRequest called while no endpoint is pinned throws at once
\* and sends nothing; once the startup discovery is over, an endpoint that
\* is missing stays missing until a /test finds one, the /test pins the base
\* URL its accepted probe went to, and a call made while an endpoint is
\* pinned sends its first attempt to that endpoint.
C18_UnpinnedFailsUntilRetest ==
    [][ /\ CallBegins /\ WORKING_API_ENDPOINT = null =>
             /\ request'.pc = "thrown"
             /\ request'.result = NoEndpointError
             /\ request'.attempts = <<>>
             /\ request'.sleeps = <<>>
        /\ startupOver /\ WORKING_API_ENDPOINT = null /\ WORKING_API_ENDPOINT' # null =>
             /\ Repinned
             /\ WORKING_API_ENDPOINT' = API_ENDPOINTS[discovery["test"].base]
        /\ CallBegins /\ WORKING_API_ENDPOINT # null =>
             /\ request'.pc = "awaiting"
             /\ Len(request'.attempts) = 1
             /\ request'.attempts[1].url = WORKING_API_ENDPOINT ]_vars

\* the startup discovery is over, a call has failed for want of an endpoint,
\* and a /test has since pinned one
C18_Witness ==
    /\ startupOver
    /\ request.pc = "thrown"
    /\ request.result = NoEndpointError
    /\ request.attempts = <<>>
    /\ WORKING_API_ENDPOINT = "alternative1"


\* ---------------------------------------------------------------------
\* testAPIConnection against an upstream whose answers are given
\* ---------------------------------------------------------------------

\* How one base URL answers the probes: "down" rejects or times out every
\* request; "emptyObject" answers {} and "emptyList" answers [] to all of
\* them; "noRecords" answers {value: []} when the key is in AccountKey;
\* "keyInBearer" answers {value: [x]} when the key is in Authorization;
\* "routesOnly" serves only BusRoutes, as a bare list, with X-API-Key.
BaseBehaviours ==
    {"down", "emptyObject", "emptyList", "noRecords", "keyInBearer", "routesOnly"}

\* the answer to axios.get(baseUrl/testEndpoint) with the headers of method auth
ProbeOutcome(behaviour, testEndpoint, auth) ==
    CASE behaviour = "down" -> "error"
      [] behaviour = "emptyObject" -> "emptyObject"
      [] behaviour = "emptyList" -> "emptyArray"
      [] behaviour = "noRecords" -> IF auth = 1 THEN "emptyValue" ELSE "error"
      [] behaviour = "keyInBearer" -> IF auth = 2 THEN "value" ELSE "error"
      [] behaviour = "routesOnly" ->
            IF testEndpoints[testEndpoint] = "BusRoutes" /\ auth = 3 THEN "array" ELSE "error"

\* the three loops have run out
LoopsOver(d) == d.base > Len(API_ENDPOINTS)

InitDiscovery ==
    /\ testCall \in [state : {"probing"},
                     upstream : [1..Len(API_ENDPOINTS) -> BaseBehaviours],
                     base : {1}, testEndpoint : {1}, auth : {1},
                     outcome : {"none"}, result : {null}]
    /\ nearbyCall = nearbyIdle
    /\ etaCall = etaIdle
    /\ arrivalsCall = arrivalsIdle
    /\ geoCall = geoIdle
    /\ combinedCall = combinedIdle
    /\ searchCall = searchIdle
    /\ ClientIdle
    /\ RefreshIdle
    /\ BotIdle

\* the probe in flight is answered: an accepted answer ends the run with
\* baseUrl, any other answer or an error sends the next probe, and after
\* the last probe the run ends with null
ProbeAnswered ==
    /\ testCall.state = "probing"
    /\ LET d == testCall
           outcome == ProbeOutcome(d.upstream[d.base], d.testEndpoint, d.auth)
           next == NextProbe(d)
       IN  testCall' =
             IF ProbeAccepted(outcome)
             THEN [d EXCEPT !.state = "returned", !.outcome = outcome,
                            !.result = API_ENDPOINTS[d.base]]
             ELSE IF LoopsOver(next)
                  THEN [d EXCEPT !.state = "returned", !.outcome = outcome, !.result = null]
                  ELSE [next EXCEPT !.outcome = outcome]
    /\ UNCHANGED <<nearbyCall, etaCall, arrivalsCall, geoCall, combinedCall, searchCall,
                   clientVars, refreshVars, botVars>>

NextDiscovery == ProbeAnswered

SpecDiscovery == InitDiscovery /\ [][NextDiscovery]_vars


\* some probe of the base URL at position b gets an answer that the test of
\* line 722 accepts
SomeProbeSucceeds(upstream, b) ==
    \E e \in 1..Len(testEndpoints), a \in 1..Len(authMethods) :
        ProbeAccepted(ProbeOutcome(upstream[b], e, a))

\* C19: a run of testAPIConnection returns null exactly when no probe of any
\* base URL, with any test path and any auth method, is accepted; otherwise
\* it returns the first base URL, in the order of API_ENDPOINTS, that has a
\* probe which is accepted.
C19_FirstWorkingBaseOrNull ==
    testCall.state = "returned" =>
        LET working == {b \in 1..Len(API_ENDPOINTS) :
                           SomeProbeSucceeds(testCall.upstream, b)}
        IN  /\ testCall.result = null <=> working = {}
            /\ working # {} =>
                 \E b \in working :
                    /\ \A c \in working : b <= c
                    /\ testCall.result = API_ENDPOINTS[b]

\* the first two base URLs are down, the third serves only BusRoutes with
\* X-API-Key and the fourth accepts the Bearer key: the third is returned
C19_Witness ==
    /\ testCall.state = "returned"
    /\ testCall.upstream = <<"down", "emptyObject", "routesOnly", "keyInBearer">>
    /\ testCall.result = "alternative1"

\* C20: a run of testAPIConnection returns a base URL only if the probe it
\* accepted was answered with a payload that holds at least one record.
C20_Original ==
    testCall.state = "returned" /\ testCall.result # null =>
        testCall.outcome \in {"value", "array"}


\* C21: a pass of getAllBusStops over one bulk path sends at most 30 page
\* requests, whatever the upstream answers.
C21_Original == \A p \in Fetchers : fetches[p].totalRequests <= 30


\* C22: a call of getBusArrivals requests the primary path first, requests
\* a second path exactly when the primary path answered 404, and never
\* requests a third.
C22_Original ==
    combinedCall.state # "idle" /\ combinedCall.paths # <<>> =>
        /\ combinedCall.paths[1] = arrivalEndpoints[1]
        /\ Len(combinedCall.paths) <= 2
        /\ Len(combinedCall.paths) = 2 <=> combinedCall.primaryStatus = 404


\* C23: a page that is neither an envelope nor a bare list adds nothing to
\* the stops a pass accumulates, and nothing of it is ever in the cache.
C23_Original ==
    /\ \A p \in Fetchers : UnrecognizedObject \notin Range(fetches[p].allBusStops)
    /\ UnrecognizedObject \notin Range(busStopsCache.data)


\* the values the stops keyboard offers
AllowedMaxStops == {3, 5, 7, 10, 15}

\* the stops of the cache within the radius of a query, by ascending
\* distance, stops at the same distance in cache order
Qualifying(query) ==
    LET nearby == nearbyPush(query.latitude, query.longitude, busStopsCache.data,
                             query.radius)
    IN  SortAscending(nearby, [i \in 1..Len(nearby) |-> nearby[i].distance])

\* C24: with maxStops one of 3, 5, 7, 10, 15, the stops listed for a query
\* are the first min(maxStops, number of qualifying stops) qualifying stops.
C24_Original ==
    \A u \in Users :
        /\ handlers[u].pc = "replied"
        /\ handlers[u].reply.kind = "listing"
        /\ ~handlers[u].reply.maxStops.nan
        /\ handlers[u].reply.maxStops.v \in AllowedMaxStops
        => handlers[u].reply.stops =
              Take(Qualifying(handlers[u].reply.query), handlers[u].reply.maxStops.v)


\* C25: the services displayed for a stop are the first 8, in service
\* order, of the predictions whose primary ETA is displayable; with at most
\* 8 displayable predictions all of them are displayed.
C25_Original ==
    arrivalsCall.state = "returned" =>
        LET lines == arrivalsCall.section.lines
            now == arrivalsCall.now
            keys == [i \in 1..Len(Predictions) |->
                        LeadingNumberOr999(Predictions[i].ServiceNo)]
            displayable == {i \in 1..Len(Predictions) :
                               DisplayableEta(Predictions[i], now)}
            firstEight == {i \in displayable :
                              Cardinality({j \in displayable : Precedes(keys, j, i)}) < 8}
        IN  /\ Len(lines) = Cardinality(firstEight)
            /\ {lines[k].busNumber : k \in 1..Len(lines)}
                  = {Predictions[i].ServiceNo : i \in firstEight}


\* ---------------------------------------------------------------------
\* handleLocationSearch statement by statement (src/bot.js 1307-1370).
\* The searching message of line 1308 has been delivered; every later
\* await either settles with a value or rejects.  What the awaited calls
\* answer is drawn here from what they can answer: getAllBusStops returns
\* an array (loaded or the cache snapshot, possibly empty) and never
\* rejects, findNearbyBusStops finds some number of stops, each arrival
\* fetch succeeds or fails, each editMessageText inside the try is
\* accepted or rejected by Telegram.

\* the most stops one search formats
MaxFormatted == 3

CacheStates == {"empty", "filled"}

BulkFetchResults == {"loaded", "snapshotEmpty"}

EditResults == {"accepted", "rejected"}

ArrivalFetchResults == {"data", "null", "throws"}

\* the run leaves the function with the outcome the user reads
SearchEnds(call, handler) ==
    [call EXCEPT !.pc = handler.pc,
                 !.outcome = IF handler.pc = "replied" THEN handler.reply.kind ELSE "none"]

\* an awaited editMessageText inside the try: accepted, the run goes on as
\* next; rejected, the catch of 1362-1368 ends the run
AfterTryEdit(call, edit, next) ==
    IF edit = "accepted" THEN next ELSE SearchEnds(call, handleLocationSearchCatch)

\* a located query arrives and the searching message is sent (1308)
InitSearch ==
    /\ searchCall \in [ pc : {"called"},
                        cache : CacheStates,
                        nearby : 0..MaxFormatted,
                        sections : {<<>>},
                        outcome : {"none"} ]
    /\ nearbyCall = nearbyIdle
    /\ etaCall = etaIdle
    /\ arrivalsCall = arrivalsIdle
    /\ geoCall = geoIdle
    /\ combinedCall = combinedIdle
    /\ testCall = testIdle
    /\ ClientIdle
    /\ RefreshIdle
    /\ BotIdle

\* 1311-1319: the session is stored, then the cache is used when it holds
\* stops and getAllBusStops is awaited when it does not
SessionStored ==
    /\ searchCall.pc = "called"
    /\ searchCall' = [searchCall EXCEPT !.pc = IF searchCall.cache = "filled"
                                               THEN "loaded" ELSE "fetching"]
    /\ UNCHANGED <<nearbyCall, etaCall, arrivalsCall, geoCall, combinedCall, testCall,
                   clientVars, refreshVars, botVars>>

\* 1319-1328: getAllBusStops settles; with no stops the user is told so
BulkFetchSettles ==
    /\ searchCall.pc = "fetching"
    /\ \E result \in BulkFetchResults, edit \in EditResults :
          searchCall' =
             IF result = "loaded"
             THEN [searchCall EXCEPT !.pc = "loaded"]
             ELSE AfterTryEdit(searchCall, edit, SearchEnds(searchCall, Replied("unable")))
    /\ UNCHANGED <<nearbyCall, etaCall, arrivalsCall, geoCall, combinedCall, testCall,
                   clientVars, refreshVars, botVars>>

\* 1330-1351: the stops in range are computed; none, the user is told so;
\* some, the count is shown and the arrivals are loaded
NearbyComputed ==
    /\ searchCall.pc = "loaded"
    /\ \E edit \in EditResults :
          searchCall' =
             IF searchCall.nearby = 0
             THEN AfterTryEdit(searchCall, edit, SearchEnds(searchCall, Replied("noneFound")))
             ELSE AfterTryEdit(searchCall, edit, [searchCall EXCEPT !.pc = "formatting"])
    /\ UNCHANGED <<nearbyCall, etaCall, arrivalsCall, geoCall, combinedCall, testCall,
                   clientVars, refreshVars, botVars>>

\* 1353 and 938-975: the arrivals of the next stop are awaited; a failed
\* fetch is written into the stop's section and the loop goes on
ArrivalSettles ==
    /\ searchCall.pc = "formatting"
    /\ Len(searchCall.sections) < searchCall.nearby
    /\ \E result \in ArrivalFetchResults :
          searchCall' = [searchCall EXCEPT !.sections = Append(@, result)]
    /\ UNCHANGED <<nearbyCall, etaCall, arrivalsCall, geoCall, combinedCall, testCall,
                   clientVars, refreshVars, botVars>>

\* 1355-1360: the combined message replaces the searching message
ListingSent ==
    /\ searchCall.pc = "formatting"
    /\ Len(searchCall.sections) = searchCall.nearby
    /\ \E edit \in EditResults :
          searchCall' = AfterTryEdit(searchCall, edit,
                                     SearchEnds(searchCall, Replied("listing")))
    /\ UNCHANGED <<nearbyCall, etaCall, arrivalsCall, geoCall, combinedCall, testCall,
                   clientVars, refreshVars, botVars>>

NextSearch ==
    \/ SessionStored
    \/ BulkFetchSettles
    \/ NearbyComputed
    \/ ArrivalSettles
    \/ ListingSent

\* every awaited call settles, so a step that is due is taken
SpecSearch ==
    /\ InitSearch
    /\ [][NextSearch]_vars
    /\ WF_vars(NextSearch)

LocationSearchOutcomes == {"listing", "noneFound", "unable", "error"}

PreferencesInForce(u) ==
    IF userPreferences[u].present
    THEN [radius |-> userPreferences[u].radius, maxStops |-> userPreferences[u].maxStops]
    ELSE [radius |-> Num(200), maxStops |-> Num(5)]

IsListing(handler) == handler.pc = "replied" /\ handler.reply.kind = "listing"

\* C27: an entry of userPreferences appears only in a step of the radius,
\* stops or reset callback and is never removed; a query reads the entry in
\* force (the defaults 200 and 5 when there is none) at the step where it
\* reads its preferences, and a listing sent to a user who has no entry
\* was made with radius 200 and maxStops 5.
C27_DefaultsUntilCustomized ==
    [][ \A u \in Users :
          /\ userPreferences[u].present => userPreferences'[u].present
          /\ ~userPreferences[u].present /\ userPreferences'[u].present =>
                SetRadius(u) \/ SetStops(u) \/ ResetSettings(u)
          /\ handlers[u].pc \in {"searching", "fetching"} /\ handlers'[u].pc = "found" =>
                /\ handlers'[u].userPrefs = PreferencesInForce(u)
                /\ handlers'[u].query.radius = PreferencesInForce(u).radius
          /\ handlers[u].pc = "refreshingAll" /\ IsListing(handlers'[u]) =>
                /\ handlers'[u].reply.maxStops = PreferencesInForce(u).maxStops
                /\ handlers'[u].reply.query.radius = PreferencesInForce(u).radius
          /\ handlers[u].pc = "found" /\ IsListing(handlers'[u]) =>
                /\ handlers'[u].reply.query = handlers[u].query
                /\ handlers'[u].reply.maxStops \in
                      {handlers[u].userPrefs.maxStops, PreferencesInForce(u).maxStops}
                /\ ~userPreferences[u].present =>
                      /\ handlers'[u].reply.maxStops = Num(5)
                      /\ handlers'[u].reply.query.radius = Num(200) ]_vars

\* a query made after the user chose 7 stops and 500 m was listed with them
C27_Witness ==
    /\ IsListing(handlers["u1"])
    /\ userPreferences["u1"].present
    /\ userPreferences["u1"].maxStops = Num(7)
    /\ handlers["u1"].reply.maxStops = Num(7)
    /\ handlers["u1"].reply.query.radius = Num(500)


PositiveInteger(n) == ~n.nan /\ n.v \in Nat \ {0}

\* C28: every entry of userPreferences has a positive integer radius and a
\* positive integer maxStops, whatever data the radius and stops callbacks
\* were sent.
C28_Original ==
    \A u \in Users :
        userPreferences[u].present =>
            /\ PositiveInteger(userPreferences[u].radius)
            /\ PositiveInteger(userPreferences[u].maxStops)


\* ---------------------------------------------------------------------
\* Two chats.  The first does everything a user can do; the second sends
\* /search or resets its settings at any moment.

BystanderEvent(b) ==
    \/ SearchCommand(b)
    \/ ResetSettings(b)

NextTwoChats ==
    \/ NextBot
    \/ \E b \in Bystanders : BystanderEvent(b)

SpecTwoChats == InitBot /\ [][NextTwoChats]_vars

\* the steps of the handlers that run for one user
EventOf(u) ==
    \/ LocationShared(u)
    \/ SearchCommand(u)
    \/ FreeText(u)
    \/ RefreshPressed(u)
    \/ GeocodeEnds(u)
    \/ SearchBegins(u)
    \/ FetchEnds(u)
    \/ ListStops(u)
    \/ RefreshAllPressed(u)
    \/ RefreshAllLists(u)
    \/ SetRadius(u)
    \/ SetStops(u)
    \/ ResetSettings(u)

\* C29: a step of a handler that runs for one user leaves the session entry
\* and the preferences entry of every other user as they were.
C29_OtherUsersUntouched ==
    [][ \A a \in Chats : \A b \in Chats \ {a} :
          \/ /\ userSessions'[b] = userSessions[b]
             /\ userPreferences'[b] = userPreferences[b]
          \/ ~(IF a \in Users THEN EventOf(a) ELSE BystanderEvent(a)) ]_vars

\* both chats hold a session and preferences of their own
C29_Witness ==
    /\ userSessions["u1"].present /\ userSessions["u1"].located
    /\ userPreferences["u1"].present /\ userPreferences["u1"].maxStops = Num(3)
    /\ userSessions["u2"].present /\ ~userSessions["u2"].located
    /\ userPreferences["u2"].present /\ userPreferences["u2"].maxStops = Num(5)


\* a step in which the execution p assigns busStopsCache.data
ReplacesData(p) ==
    /\ fetches[p].pc = "paging"
    /\ fetches'[p].result = "loaded"
    /\ busStopsCache'.data = fetches'[p].value

\* C30: busStopsCache.lastUpdated changes in exactly the steps in which an
\* execution of getAllBusStops assigns busStopsCache.data, and no step
\* changes the data without it; lastUpdated is 0 exactly while no execution
\* has succeeded, which is while the data is the initial empty array.
C30_DataAndTimestampTogether ==
    /\ [][ /\ busStopsCache'.lastUpdated # busStopsCache.lastUpdated
              <=> \E p \in Fetchers : ReplacesData(p)
           /\ busStopsCache'.data # busStopsCache.data
              => busStopsCache'.lastUpdated # busStopsCache.lastUpdated ]_vars
    /\ []( /\ busStopsCache.lastUpdated = 0
              <=> \A p \in Fetchers : fetches[p].result # "loaded"
           /\ busStopsCache.lastUpdated = 0 <=> busStopsCache.data = <<>> )

\* both executions have succeeded, the second replacing what the first stored
C30_Witness ==
    /\ \A p \in Fetchers : fetches[p].result = "loaded"
    /\ busStopsCache.lastUpdated = 2
    /\ busStopsCache.data # <<>>


\* the place of a returned stop in the list that was searched
CachePosition(busStops, r) ==
    CHOOSE k \in 1..Len(busStops) : busStops[k] = Unranked(r)

\* C31: two stops that findNearbyBusStops reports at the same distance,
\* whether their computed distances are equal or only round to the same
\* metre, are returned in the order they have in the list searched.
C31_TiesKeepCacheOrder ==
    nearbyCall.state = "returned" =>
        LET r == nearbyCall.sorted
        IN  \A i, j \in 1..Len(r) :
                i < j /\ r[i].distance = r[j].distance =>
                    CachePosition(nearbyCall.busStops, r[i])
                        < CachePosition(nearbyCall.busStops, r[j])

\* the stop at 50 m is cached before the stop at 30 m and both are 34 m
\* from the origin; the stops at 120.4 m and 120 m are returned with them
C31_Witness ==
    /\ nearbyCall.state = "returned"
    /\ nearbyCall.origin = <<160, 0>>
    /\ Codes(nearbyCall.busStops) = <<"S1204", "S050", "S120", "S030">>
    /\ Codes(nearbyCall.sorted) = <<"S050", "S030", "S1204", "S120">>


\* C32: a step never takes the cache from holding stops to holding none,
\* whether an execution of getAllBusStops commits, fails or is served an
\* empty dataset in that step.
C32_PopulatedCacheStaysPopulated ==
    [][ Len(busStopsCache.data) > 0 => Len(busStopsCache'.data) > 0 ]_vars

\* the startup has loaded the cache; the execution of a query that was
\* running meanwhile then failed on all its paths and returned the cache
C32_Witness ==
    /\ fetches["initializeBot"].result = "loaded"
    /\ fetches["handleLocationSearch"].result = "fallback"
    /\ Len(fetches["handleLocationSearch"].value) > 0
    /\ Len(busStopsCache.data) > 0


\* the executions that ended with a commit
Loaded == {p \in Fetchers : fetches[p].pc = "returned" /\ fetches[p].result = "loaded"}

\* C33: with two executions of getAllBusStops interleaved at every request,
\* the cache is at all times the snapshot the executions started from or
\* the whole sequence one execution accumulated and returned; once all
\* executions have ended and one of them committed, it is the sequence of
\* one that committed.
C33_CacheIsOneExecutionsResult ==
    /\ \/ busStopsCache.data = <<>>
       \/ \E p \in Loaded : busStopsCache.data = fetches[p].value
    /\ (\A p \in Fetchers : fetches[p].pc = "returned") /\ Loaded # {} =>
           \E p \in Loaded : busStopsCache.data = fetches[p].value

\* both executions committed, one the seven stops of the paged upstream and
\* the other something else, and the cache holds the other
C33_Witness ==
    /\ Loaded = Fetchers
    /\ fetches["initializeBot"].value = UpstreamPages[1] \o UpstreamPages[2]
    /\ fetches["handleLocationSearch"].value # fetches["initializeBot"].value
    /\ busStopsCache.data = fetches["handleLocationSearch"].value


\* a step of the /test handler
TestStep == discovery'["test"] # discovery["test"]

\* C34: a step of the /test handler changes WORKING_API_ENDPOINT only to the
\* base URL its accepted probe went to, so a /test that found nothing
\* leaves it as it was; once the startup discovery is over only a step of
\* the /test handler changes it, and a pinned endpoint stays pinned.
C34_FailedRetestKeepsEndpoint ==
    [][ /\ TestStep /\ WORKING_API_ENDPOINT' # WORKING_API_ENDPOINT =>
             /\ discovery["test"].pc = "probing"
             /\ WORKING_API_ENDPOINT' = API_ENDPOINTS[discovery["test"].base]
        /\ TestStep /\ discovery'["test"].returned = "null" =>
             WORKING_API_ENDPOINT' = WORKING_API_ENDPOINT
        /\ startupOver /\ WORKING_API_ENDPOINT' # WORKING_API_ENDPOINT => TestStep
        /\ startupOver /\ WORKING_API_ENDPOINT # null => WORKING_API_ENDPOINT' # null ]_vars

\* the startup has pinned the primary base URL, and a /test has since
\* gone through all its probes and found nothing
C34_Witness ==
    /\ startupOver
    /\ WORKING_API_ENDPOINT = API_ENDPOINTS[1]
    /\ discovery["test"].pc = "idle"
    /\ discovery["test"].returned = "null"


\* C35: a text that is no command and no button, sent while the user's
\* session is absent or not awaiting an address, starts no geocoding and
\* leaves the session as it was; a geocoding request starts only in a step
\* taken while the session is awaiting an address.
C35_FreeTextGeocodedOnlyWhenAwaiting ==
    [][ \A u \in Users :
          /\ \/ userSessions[u].present /\ userSessions[u].waitingForAddress
             \/ handlers'[u].pc # "geocoding" /\ userSessions'[u] = userSessions[u]
             \/ ~FreeText(u)
          /\ handlers[u].pc # "geocoding" /\ handlers'[u].pc = "geocoding" =>
                userSessions[u].present /\ userSessions[u].waitingForAddress ]_vars

\* a user whose session holds a location and is not awaiting an address
\* has typed a text, and nothing came of it
C35_Witness ==
    /\ handlers["u1"] = Replied("ignored")
    /\ userSessions["u1"].present
    /\ userSessions["u1"].located
    /\ ~userSessions["u1"].waitingForAddress


AwaitsAddress(u) == userSessions[u].present /\ userSessions[u].waitingForAddress

\* C36: /search and the Search Address button set the user's
\* awaiting-address flag; a geocoding that finds nothing leaves the session
\* as it was; and the flag is clear after the step in which a located query
\* of the user is taken up: a geocoding that found the address, the start
\* of a search at a shared, geocoded or refreshed location, and the answer
\* to a refresh pressed under a listing.
C36_Original ==
    [][ \A u \in Users :
          /\ SearchCommand(u) \/ AddressPromptSent(u) => AwaitsAddress(u)'
          /\ handlers[u].pc = "geocoding" /\ handlers'[u] = Replied("notFound") =>
                userSessions'[u] = userSessions[u]
          /\ handlers[u].pc = "geocoding" /\ handlers'[u].pc = "searching" =>
                ~AwaitsAddress(u)'
          /\ handlers[u].pc = "searching" /\ handlers'[u].pc # "searching" =>
                ~AwaitsAddress(u)'
          /\ handlers[u].pc = "refreshingAll" /\ handlers'[u].pc = "replied" =>
                ~AwaitsAddress(u)' ]_vars


\* C37: the text of the Refresh button is never what geocodeAddress is
\* called with, whatever the session of the user who pressed it.
C37_Original ==
    \A u \in Users : handlers[u].pc = "geocoding" => handlers[u].text # "refresh"


\* no handler of u is in flight
HandlersFinished(u) == Free(u) /\ ~addressPrompts[u].present

\* C38: once the handlers of a user have finished, Search Address handlers
\* among them, the session holds the latitude and longitude of the user's
\* latest located query.
C38_Original ==
    \A u \in Users :
        HandlersFinished(u) /\ lastLocatedQuery[u].present =>
            /\ userSessions[u].present
            /\ userSessions[u].located
            /\ userSessions[u].latitude = lastLocatedQuery[u].latitude
            /\ userSessions[u].longitude = lastLocatedQuery[u].longitude


\* C39: a radius callback stores the radius parsed from its data and the
\* maxStops that was in force, a stops callback stores the maxStops parsed
\* from its data and the radius that was in force, and a reset stores the
\* radius 200 and the maxStops 5.
C39_OneFieldAtATime ==
    [][ \A u \in Users :
          /\ \/ ~SetRadius(u)
             \/ /\ userPreferences'[u].present
                /\ userPreferences'[u].maxStops = PreferencesInForce(u).maxStops
                /\ \E data \in RadiusData : userPreferences'[u].radius = parseInt(data)
          /\ \/ ~SetStops(u)
             \/ /\ userPreferences'[u].present
                /\ userPreferences'[u].radius = PreferencesInForce(u).radius
                /\ \E data \in StopsData : userPreferences'[u].maxStops = parseInt(data)
          /\ \/ ~ResetSettings(u)
             \/ userPreferences'[u] =
                   [present |-> TRUE, radius |-> Num(200), maxStops |-> Num(5)] ]_vars

\* the user chose 7 stops and then 500 m, or the other way round
C39_Witness ==
    userPreferences["u1"] = [present |-> TRUE, radius |-> Num(500), maxStops |-> Num(7)]

====
